---------------------------- MODULE Spec2Model ----------------------------
(***************************************************************************)
(* Model of the AP cost-accounting engine of dsa5-analyzer                 *)
(* (src/src/character/analysis.rs, src/src/character/data.rs).             *)
(*                                                                         *)
(* Text is modelled as a sequence of one-character strings, so that        *)
(* parsing, trimming, splitting and formatting are computed and not        *)
(* assumed.  Option<T> is [some |-> TRUE, val |-> x] or None.              *)
(***************************************************************************)
EXTENDS Integers, Sequences, FiniteSets, TLC

VARIABLES
    character,  \* the Character the engine operations are called on
    args,       \* the arguments of the private pure function under test
    op,         \* the operation that ran last ("none" after construction)
    result,     \* what that operation returned
    app,        \* the App: its current_character and selected_file
    callers     \* the callers that run engine operations side by side

vars == <<character, args, op, result, app, callers>>

-----------------------------------------------------------------------------
(* Bounds of the model *)

MaxTalentItems == 2          \* most items of a character of SpecTalent
MaxFlatItems == 3            \* most items of a character of SpecFlat
MaxDupItems == 3             \* most items of a character of SpecDup
MaxTotalItems == 2           \* most items of a character of SpecTotal
MaxGradeLen == 2             \* longest grade text handed to stf_to_multiplier
MaxPricedItems == 2          \* most items of a character of SpecItem
MaxCompareItems == 2         \* most items of a character of SpecCompare
MaxEngineItems == 2          \* most items of a character of SpecEngine
NumCallers == 2              \* callers that run engine operations side by side
MaxStepItems == 2            \* most items of a character of SpecStep
MaxOrderItems == 3           \* most items of a character of SpecOrder

MaxRawLen == 4               \* longest raw APValue text explored by the parser
MaxTalentValue == 16         \* largest talent value explored by the curves
MaxNegative == 2             \* how far below zero numeric inputs go
MaxCharacteristicValue == 17 \* largest characteristic value explored
MaxMultiplier == 5           \* largest multiplier handed to the curves

-----------------------------------------------------------------------------
(* Option, i32 *)

None == [some |-> FALSE]
Some(x) == [some |-> TRUE, val |-> x]

\* App::new(): no character loaded, no file selected
new == [current_character |-> None, selected_file |-> None]

\* no caller is running an engine operation beside the one under analysis
NoCallers == <<>>

\* The range of i32.  The product and the sum that price an item are computed
\* with the wrap-around of a build without overflow checks, and
\* arithmetic_overflows tells where a build with overflow checks panics
\* instead.  Every other sum and product of the engine stays far inside the
\* range for the inputs explored here and is written without wrap-around.
I32Max == 2147483647
I32Min == (0 - I32Max) - 1

\* a + b leaves the range of i32
add_overflows(a, b) == (b > 0 /\ a > I32Max - b) \/ (b < 0 /\ a < I32Min - b)

\* a + b modulo 2^32, as i32
wrapping_add(a, b) ==
    IF b > 0 /\ a > I32Max - b THEN (a + I32Min) + (b + I32Min)
    ELSE IF b < 0 /\ a < I32Min - b THEN (a - I32Min) + (b - I32Min)
    ELSE a + b

\* -x modulo 2^32, as i32
wrapping_neg(x) == IF x = I32Min THEN I32Min ELSE 0 - x

RECURSIVE wrapping_mul_loop(_, _)
\* a * b modulo 2^32 for b >= 0, by doubling
wrapping_mul_loop(a, b) ==
    IF b = 0 THEN 0
    ELSE IF b = 1 THEN a
    ELSE IF b % 2 = 1
    THEN wrapping_add(a, wrapping_mul_loop(wrapping_add(a, a), b \div 2))
    ELSE wrapping_mul_loop(wrapping_add(a, a), b \div 2)

\* a * b modulo 2^32, as i32
wrapping_mul(a, b) ==
    IF b >= 0 THEN wrapping_mul_loop(a, b)
    ELSE IF b = I32Min THEN (IF a % 2 = 0 THEN 0 ELSE I32Min)
    ELSE wrapping_neg(wrapping_mul_loop(a, 0 - b))

\* 2^31 \div n for n > 1
two_pow_31_div(n) == (I32Max \div n) + (IF I32Max % n = n - 1 THEN 1 ELSE 0)

\* pos * neg < i32::MIN, for pos > 0 and neg < 0
negative_product_overflows(pos, neg) ==
    IF neg = I32Min THEN pos > 1
    ELSE IF neg = 0 - 1 THEN FALSE
    ELSE pos > two_pow_31_div(0 - neg)

\* a * b leaves the range of i32
mul_overflows(a, b) ==
    IF a = 0 \/ b = 0 THEN FALSE
    ELSE IF a > 0 /\ b > 0 THEN a > I32Max \div b
    ELSE IF a < 0 /\ b < 0
    THEN a = I32Min \/ b = I32Min \/ (0 - a) > I32Max \div (0 - b)
    ELSE IF a > 0 THEN negative_product_overflows(a, b)
    ELSE negative_product_overflows(b, a)

RECURSIVE SumSeq(_)
\* Iterator::sum over a Vec<i32>
SumSeq(s) == IF Len(s) = 0 THEN 0 ELSE wrapping_add(Head(s), SumSeq(Tail(s)))

RECURSIVE sum_overflows(_, _)
\* Iterator::sum leaves the range of i32 at one of its additions
sum_overflows(acc, s) ==
    IF Len(s) = 0 THEN FALSE
    ELSE add_overflows(acc, Head(s)) \/ sum_overflows(wrapping_add(acc, Head(s)), Tail(s))

-----------------------------------------------------------------------------
(* Text *)

DigitChars == {"0", "1", "2", "3", "4", "5", "6", "7", "8", "9"}

DigitValue(c) ==
    CASE c = "0" -> 0 [] c = "1" -> 1 [] c = "2" -> 2 [] c = "3" -> 3
      [] c = "4" -> 4 [] c = "5" -> 5 [] c = "6" -> 6 [] c = "7" -> 7
      [] c = "8" -> 8 [] c = "9" -> 9

DigitChar(d) ==
    CASE d = 0 -> "0" [] d = 1 -> "1" [] d = 2 -> "2" [] d = 3 -> "3"
      [] d = 4 -> "4" [] d = 5 -> "5" [] d = 6 -> "6" [] d = 7 -> "7"
      [] d = 8 -> "8" [] d = 9 -> "9"

WhitespaceChars == {" "}

RECURSIVE trim_start(_)
trim_start(s) ==
    IF Len(s) > 0 /\ Head(s) \in WhitespaceChars THEN trim_start(Tail(s)) ELSE s

RECURSIVE trim_end(_)
trim_end(s) ==
    IF Len(s) > 0 /\ s[Len(s)] \in WhitespaceChars
    THEN trim_end(SubSeq(s, 1, Len(s) - 1))
    ELSE s

\* str::trim
trim(s) == trim_end(trim_start(s))

RECURSIVE find_char(_, _, _)
\* str::find(c): the first position of c at or after i, 0 when there is none
find_char(s, c, i) ==
    IF i > Len(s) THEN 0
    ELSE IF s[i] = c THEN i
    ELSE find_char(s, c, i + 1)

\* str::contains(c)
contains_char(s, c) == find_char(s, c, 1) # 0

RECURSIVE split(_, _)
\* str::split(c): the pieces between the separators, empty pieces included
split(s, c) ==
    LET p == find_char(s, c, 1)
    IN IF p = 0 THEN <<s>>
       ELSE <<SubSeq(s, 1, p - 1)>> \o split(SubSeq(s, p + 1, Len(s)), c)

RECURSIVE digits_value(_, _, _)
\* the accumulation loop of i32::from_str over the digits: checked
\* multiply-and-add for a positive number, multiply-and-subtract for a negative
digits_value(ds, acc, is_positive) ==
    IF Len(ds) = 0 THEN Some(acc)
    ELSE LET d == DigitValue(Head(ds))
         IN IF is_positive
            THEN IF acc > (I32Max - d) \div 10 THEN None
                 ELSE digits_value(Tail(ds), acc * 10 + d, is_positive)
            ELSE IF acc < (I32Min + d + 9) \div 10 THEN None
                 ELSE digits_value(Tail(ds), acc * 10 - d, is_positive)

\* str::parse::<i32>().ok(): optional sign, then one or more decimal digits,
\* nothing else, and the value must fit an i32
parse_i32(s) ==
    IF Len(s) = 0 THEN None
    ELSE LET signed == Head(s) \in {"+", "-"}
             ds == IF signed THEN Tail(s) ELSE s
         IN IF Len(ds) = 0 THEN None
            ELSE IF \E i \in 1..Len(ds) : ds[i] \notin DigitChars THEN None
            ELSE digits_value(ds, 0, Head(s) # "-")

RECURSIVE nat_to_string(_)
nat_to_string(n) ==
    IF n < 10 THEN <<DigitChar(n)>>
    ELSE nat_to_string(n \div 10) \o <<DigitChar(n % 10)>>

\* i32::to_string / serde_json::Number::to_string of an integer
to_string(n) == IF n < 0 THEN <<"-">> \o nat_to_string(0 - n) ELSE nat_to_string(n)

-----------------------------------------------------------------------------
(* Value Parser *)

SingleValue(v) == [kind |-> "SingleValue", value |-> v]
MultipleValues(vs) == [kind |-> "MultipleValues", values |-> vs]
ParseError == [kind |-> "ParseError"]

RECURSIVE collect_parsed_skipping(_)
\* collect_parsed dropping the parts that fail to parse instead of failing
collect_parsed_skipping(parts) ==
    IF Len(parts) = 0 THEN Some(<<>>)
    ELSE LET p == parse_i32(trim(Head(parts)))
             rest == collect_parsed_skipping(Tail(parts))
         IN IF p.some THEN Some(<<p.val>> \o rest.val) ELSE rest

RECURSIVE collect_parsed(_)

\* v followed by the values of rest, when rest was collected
prepend_value(v, rest) == IF ~rest.some THEN None ELSE Some(<<v>> \o rest.val)

\* one step of the collect: p is the parse of the part at hand
collect_step(p, remaining) ==
    IF ~p.some THEN None ELSE prepend_value(p.val, collect_parsed(remaining))

\* Iterator::collect::<Result<Vec<i32>, _>>: the first failing part fails the whole
collect_parsed(parts) ==
    IF Len(parts) = 0 THEN Some(<<>>)
    ELSE collect_step(parse_i32(trim(Head(parts))), Tail(parts))

\* match parsed_values { Ok(values) if !values.is_empty() => .., _ => ParseError }
multiple_values_or_error(parsed_values) ==
    IF parsed_values.some /\ Len(parsed_values.val) # 0
    THEN MultipleValues(parsed_values.val)
    ELSE ParseError

\* match ap_value_str.parse::<i32>() { Ok(value) => .., Err(_) => ParseError }
single_value_or_error(p) == IF p.some THEN SingleValue(p.val) ELSE ParseError

parse_ap_value(ap_value_str) ==
    IF contains_char(ap_value_str, ";")
    THEN multiple_values_or_error(collect_parsed(split(ap_value_str, ";")))
    ELSE single_value_or_error(parse_i32(ap_value_str))

-----------------------------------------------------------------------------
(* Progressive Cost Calculator *)

COMBAT_SKILL_BASE == 6

RECURSIVE cost_above_12_loop(_, _, _, _)
\* the for loop of cost_above_12: i iterations left
cost_above_12_loop(i, stf_multiplier, current_increment_cost, total_cost) ==
    IF i <= 0 THEN total_cost
    ELSE LET inc == current_increment_cost + stf_multiplier
         IN cost_above_12_loop(i - 1, stf_multiplier, inc, total_cost + inc)

\* cost_above_12 with the increment starting one step too low
cost_above_12_from_zero(above_12, stf_multiplier) ==
    cost_above_12_loop(above_12, stf_multiplier, 0, 0)

cost_above_12(above_12, stf_multiplier) ==
    cost_above_12_loop(above_12, stf_multiplier, stf_multiplier, 0)

talent_value_to_ap_cost(talent_value, stf_multiplier) ==
    IF talent_value < 0 THEN 0
    ELSE IF talent_value <= 12 THEN talent_value * stf_multiplier
    ELSE LET cost_until_12 == 12 * stf_multiplier
             above_12 == talent_value - 12
         IN cost_until_12 + cost_above_12(above_12, stf_multiplier)

\* the combat-skill curve without the free levels taken off
combat_skill_cost_without_free_levels(talent_value, stf_multiplier) ==
    IF talent_value <= COMBAT_SKILL_BASE THEN 0
    ELSE talent_value_to_ap_cost(talent_value, stf_multiplier)

combat_skill_talent_value_to_ap_cost(talent_value, stf_multiplier) ==
    IF talent_value <= COMBAT_SKILL_BASE THEN 0
    ELSE LET total_ap_cost == talent_value_to_ap_cost(talent_value, stf_multiplier)
             free_levels_cost == talent_value_to_ap_cost(COMBAT_SKILL_BASE, stf_multiplier)
         IN total_ap_cost - free_levels_cost

\* the learned-ability curve without the learning cost
learned_ability_cost_without_learning(talent_value, stf_multiplier) ==
    talent_value_to_ap_cost(talent_value, stf_multiplier)

learned_ability_talent_value_to_ap_cost(talent_value, stf_multiplier) ==
    LET learning_ap_cost == stf_multiplier
        progression_ap_cost == talent_value_to_ap_cost(talent_value, stf_multiplier)
    IN learning_ap_cost + progression_ap_cost

Ok(x) == [ok |-> TRUE, val |-> x]
Err(e) == [ok |-> FALSE, err |-> e]

RECURSIVE cost_above_14_loop(_, _, _)
\* the for loop of characteristic_to_ap_cost: i in 1..=above_14
cost_above_14_loop(i, above_14, cost_above_14) ==
    IF i > above_14 THEN cost_above_14
    ELSE cost_above_14_loop(i + 1, above_14, cost_above_14 + (15 + i * 15))

\* the characteristic curve with 15 per point above 14 as well
characteristic_to_ap_cost_linear(value) ==
    IF value < 8 THEN Err("Value must be greater or equal 8")
    ELSE Ok((value - 8) * 15)

characteristic_to_ap_cost(value) ==
    IF value < 8 THEN Err("Value must be greater or equal 8")
    ELSE IF value <= 14 THEN Ok((value - 8) * 15)
    ELSE LET cost_until_14 == 6 * 15
             above_14 == value - 14
         IN Ok(cost_until_14 + cost_above_14_loop(1, above_14, 0))

-----------------------------------------------------------------------------
(* Character data: the attribute bag of an item and its typed getters *)

\* The JSON found under <key>.value of an item's system map.  Absent stands for
\* a missing key, a missing "value" field, and for null, arrays and objects.
JString(s) == [kind |-> "String", str |-> s]
JNumber(n) == [kind |-> "Number", num |-> n]
JBool(b) == [kind |-> "Bool", bool |-> b]
Absent == [kind |-> "Absent"]

bool_to_string(b) == IF b THEN <<"t", "r", "u", "e">> ELSE <<"f", "a", "l", "s", "e">>

get_ap_value(system) ==
    LET v == system["APValue"]
    IN CASE v.kind = "String" -> Some(v.str)
         [] v.kind = "Number" -> Some(to_string(v.num))
         [] OTHER -> None

get_value_as_string(system, key) ==
    LET v == system[key]
    IN CASE v.kind = "String" -> Some(v.str)
         [] v.kind = "Number" -> Some(to_string(v.num))
         [] v.kind = "Bool" -> Some(bool_to_string(v.bool))
         [] OTHER -> None

get_talent_value(system) == get_value_as_string(system, "talentValue")
get_st_f_value(system) == get_value_as_string(system, "StF")
get_step_value(system) == get_value_as_string(system, "step")

\* Bytes of the characters used in names, in ascending order
ByteOrder ==
    <<" ", "(", ")", "+", "-", "0", "1", "2", "3", "4", "5", "6", "7", "8", "9",
      ";", "A", "B", "C", "D", "E", "F", "G", "H", "I", "J", "K", "L", "M", "N",
      "O", "P", "Q", "R", "S", "T", "U", "V", "W", "X", "Y", "Z",
      "a", "b", "c", "d", "e", "f", "g", "h", "i", "j", "k", "l", "m", "n",
      "o", "p", "q", "r", "s", "t", "u", "v", "w", "x", "y", "z">>

CharCode(c) == CHOOSE i \in 1..Len(ByteOrder) : ByteOrder[i] = c

RECURSIVE cmp_text(_, _)
\* Ord for String: byte-wise lexicographic; -1 Less, 0 Equal, 1 Greater
cmp_text(a, b) ==
    IF Len(a) = 0 THEN (IF Len(b) = 0 THEN 0 ELSE 0 - 1)
    ELSE IF Len(b) = 0 THEN 1
    ELSE IF CharCode(Head(a)) < CharCode(Head(b)) THEN 0 - 1
    ELSE IF CharCode(Head(a)) > CharCode(Head(b)) THEN 1
    ELSE cmp_text(Tail(a), Tail(b))

cmp_int(a, b) == IF a < b THEN 0 - 1 ELSE IF a > b THEN 1 ELSE 0

unwrap_or(o, d) == IF o.some THEN o.val ELSE d

\* The comparison closures, the one of the breakdown comparing names only
compare_by_name_only(key, a, b) ==
    CASE key = "name" -> cmp_text(a.name, b.name)
      [] key = "step_desc" -> cmp_int(unwrap_or(b.step, 1), unwrap_or(a.step, 1))
      [] key = "name_then_step_desc" ->
            cmp_text(a.name, b.name)

\* The comparison closures handed to sort_by
compare_by(key, a, b) ==
    CASE key = "name" -> cmp_text(a.name, b.name)
      [] key = "step_desc" -> cmp_int(unwrap_or(b.step, 1), unwrap_or(a.step, 1))
      [] key = "name_then_step_desc" ->
            IF cmp_text(a.name, b.name) = 0
            THEN cmp_int(unwrap_or(b.step, 1), unwrap_or(a.step, 1))
            ELSE cmp_text(a.name, b.name)

RECURSIVE insert_before_equal(_, _, _)
\* insert_stable putting x before the elements it compares Equal to
insert_before_equal(sorted, x, key) ==
    IF Len(sorted) = 0 THEN <<x>>
    ELSE IF compare_by(key, x, Head(sorted)) <= 0 THEN <<x>> \o sorted
    ELSE <<Head(sorted)>> \o insert_before_equal(Tail(sorted), x, key)

RECURSIVE insert_stable(_, _, _)
\* x goes before the first element that compares Greater than x
insert_stable(sorted, x, key) ==
    IF Len(sorted) = 0 THEN <<x>>
    ELSE IF compare_by(key, x, Head(sorted)) < 0 THEN <<x>> \o sorted
    ELSE <<Head(sorted)>> \o insert_stable(Tail(sorted), x, key)

RECURSIVE sort_from(_, _, _)
sort_from(sorted, rest, key) ==
    IF Len(rest) = 0 THEN sorted
    ELSE sort_from(insert_stable(sorted, Head(rest), key), Tail(rest), key)

\* slice::sort_by: a stable sort
sort_by(s, key) == sort_from(<<>>, s, key)

get_ap_items(c) == SelectSeq(c.items, LAMBDA item : get_ap_value(item.system).some)

get_items_by_types(c, types) ==
    sort_by(SelectSeq(c.items, LAMBDA item : item.item_type \in types), "name")

get_skills(c) == get_items_by_types(c, {"skill"})
get_combat_skills(c) == get_items_by_types(c, {"combatskill"})
get_spells_and_rituals(c) == get_items_by_types(c, {"spell", "ritual"})
get_magic_tricks(c) == get_items_by_types(c, {"magictrick"})
get_liturgies_and_ceremonies(c) == get_items_by_types(c, {"liturgy", "ceremony"})
get_blessings(c) == get_items_by_types(c, {"blessing"})

-----------------------------------------------------------------------------
(* Item Cost Pipeline *)

\* values.iter().take(step as usize): a negative step casts to a huge count
take(values, step) ==
    IF step < 0 \/ step > Len(values) THEN values ELSE SubSeq(values, 1, step)

\* calculate_single_value_cost without the step
calculate_single_value_cost_ignoring_step(value, step) == value

calculate_single_value_cost(value, step) == wrapping_mul(value, step)

\* calculate_multiple_values_cost without the upper range check: a step beyond
\* the list takes all the values
calculate_multiple_values_cost_without_upper_check(values, step) ==
    IF step < 1 THEN Err(<<"Step must be at least 1">>)
    ELSE Ok(SumSeq(take(values, step)))

calculate_multiple_values_cost(values, step) ==
    IF step > Len(values)
    THEN Err(<<"Step ">> \o to_string(step) \o <<" exceeds available values (">>
               \o to_string(Len(values)) \o <<")">>)
    ELSE IF step < 1 THEN Err(<<"Step must be at least 1">>)
    ELSE Ok(SumSeq(take(values, step)))

\* item.system.get_step_value().and_then(|s| s.parse::<i32>().ok())
and_then_parse(s) == IF s.some THEN parse_i32(s.val) ELSE None

step_option(item) == and_then_parse(get_step_value(item.system))

\* .unwrap_or_else(|_| 0)
unwrap_or_else_zero(r) == IF r.ok THEN r.val ELSE 0

\* the match on the parsed AP value in calculate_item_ap_cost
cost_of_parsed(parsed, step) ==
    CASE parsed.kind = "SingleValue" ->
            calculate_single_value_cost(parsed.value, step)
      [] parsed.kind = "MultipleValues" ->
            unwrap_or_else_zero(calculate_multiple_values_cost(parsed.values, step))
      [] parsed.kind = "ParseError" -> 0

\* calculate_item_ap_cost after its two reads of the item
cost_of_ap_value(ap_value_str, step) ==
    IF ~ap_value_str.some THEN 0
    ELSE cost_of_parsed(parse_ap_value(ap_value_str.val), step)

\* calculate_item_ap_cost pricing an unparsable AP value as the value 1
calculate_item_ap_cost_pricing_errors(item) ==
    LET ap_value_str == get_ap_value(item.system)
        step == unwrap_or(step_option(item), 1)
    IN IF ~ap_value_str.some THEN 0
       ELSE LET parsed == parse_ap_value(ap_value_str.val)
            IN CASE parsed.kind = "SingleValue" ->
                      calculate_single_value_cost(parsed.value, step)
                 [] parsed.kind = "MultipleValues" ->
                      LET r == calculate_multiple_values_cost(parsed.values, step)
                      IN IF r.ok THEN r.val ELSE 0
                 [] parsed.kind = "ParseError" -> calculate_single_value_cost(1, step)

\* calculate_item_ap_cost taking a missing step as 0
calculate_item_ap_cost_defaulting_to_zero(item) ==
    cost_of_ap_value(get_ap_value(item.system), unwrap_or(step_option(item), 0))

calculate_item_ap_cost(item) ==
    cost_of_ap_value(get_ap_value(item.system), unwrap_or(step_option(item), 1))

\* value * step, or the sum of the first step values, leaves the range of i32
pricing_overflows(parsed, step) ==
    CASE parsed.kind = "SingleValue" -> mul_overflows(parsed.value, step)
      [] parsed.kind = "MultipleValues" ->
            /\ calculate_multiple_values_cost(parsed.values, step).ok
            /\ sum_overflows(0, take(parsed.values, step))
      [] parsed.kind = "ParseError" -> FALSE

\* calculate_item_ap_cost(item) meets an arithmetic overflow
item_cost_overflows(ap_value_str, step) ==
    ap_value_str.some /\ pricing_overflows(parse_ap_value(ap_value_str.val), step)

\* Pricing the items of c meets an arithmetic overflow: a build with overflow
\* checks (the default of a debug build) panics there, a build without them
\* goes on with the wrapped value
arithmetic_overflows(c) ==
    \E i \in 1..Len(c.items) :
        item_cost_overflows(get_ap_value(c.items[i].system),
                            unwrap_or(step_option(c.items[i]), 1))

\* whether a call on c may panic: in one build or the other it does or does not
may_panic_if(overflows) == IF overflows THEN {TRUE, FALSE} ELSE {FALSE}

may_panic(c) == may_panic_if(arithmetic_overflows(c))

\* whether a call that goes on to add up processed_items may panic
may_panic_adding(c, adding_overflows) ==
    may_panic_if(arithmetic_overflows(c) \/ adding_overflows)

\* how a call of operation ends: it returns value, or it unwinds with a panic
returns(operation, panics, value) ==
    /\ op' = IF panics THEN "panicked" ELSE operation
    /\ result' = IF panics THEN operation ELSE value

RECURSIVE join_plus(_)
\* step_values.join(" + ")
join_plus(vs) ==
    IF Len(vs) = 0 THEN <<>>
    ELSE IF Len(vs) = 1 THEN to_string(vs[1])
    ELSE to_string(vs[1]) \o <<" + ">> \o join_plus(Tail(vs))

\* the Ok and Err arms of the trace of a list
explanation_of_list(r, step_values) ==
    IF r.ok
    THEN IF Len(step_values) > 1
         THEN <<"Sum: ">> \o join_plus(step_values)
         ELSE IF Len(step_values) = 1 THEN to_string(step_values[1])
         ELSE <<"0">>
    ELSE <<"ERROR: ">> \o r.err

\* the match on the parsed AP value that builds the trace
explanation_of_parsed(parsed, step) ==
    CASE parsed.kind = "SingleValue" ->
            IF step = 1 THEN to_string(parsed.value)
            ELSE to_string(parsed.value) \o <<" x ">> \o to_string(step) \* " × "
      [] parsed.kind = "MultipleValues" ->
            explanation_of_list(calculate_multiple_values_cost(parsed.values, step),
                                take(parsed.values, step))
      [] parsed.kind = "ParseError" -> <<"Parse error">>

\* The calculation trace, a text given as the sequence of its pieces
calculation_explanation(raw_ap_value, step) ==
    explanation_of_parsed(parse_ap_value(raw_ap_value), step)

\* the ApItem literal of apply_special_rules
new_ap_item(item, raw_ap_value, step_opt) ==
    [name |-> item.name,
     item_type |-> item.item_type,
     raw_value |-> raw_ap_value,
     step |-> step_opt,
     calculation |-> calculation_explanation(raw_ap_value, unwrap_or(step_opt, 1)),
     ap_cost |-> calculate_item_ap_cost(item),
     was_excluded |-> FALSE]

\* The ApItem built for one item in the loop of apply_special_rules
make_ap_item(item) ==
    new_ap_item(item, unwrap_or(get_ap_value(item.system), <<>>), step_option(item))

-----------------------------------------------------------------------------
(* Duplicate Resolver *)

Prinzipientreue ==
    <<"P", "r", "i", "n", "z", "i", "p", "i", "e", "n", "t", "r", "e", "u", "e">>
Verpflichtungen ==
    <<"V", "e", "r", "p", "f", "l", "i", "c", "h", "t", "u", "n", "g", "e", "n">>

highest_step_only_items == {Prinzipientreue, Verpflichtungen}

extract_base_name(full_name) ==
    LET paren_pos == find_char(full_name, "(", 1)
    IN IF paren_pos # 0 THEN trim(SubSeq(full_name, 1, paren_pos - 1)) ELSE full_name

\* group[0] pushed as it is, group[1..] pushed flagged excluded
first_kept_others_excluded(sorted) ==
    <<sorted[1]>> \o
        [i \in 1..(Len(sorted) - 1) |-> [sorted[i + 1] EXCEPT !.was_excluded = TRUE]]

\* resolve_group pushing the kept item only
resolve_group_dropping_excluded(group) ==
    IF Len(group) = 1 THEN group
    ELSE <<sort_by(group, "step_desc")[1]>>

\* resolve_group without the sort: the first item of the group is kept
resolve_group_unsorted(group) ==
    IF Len(group) = 1 THEN group
    ELSE first_kept_others_excluded(group)

\* The body of the loop over duplicate_groups for one group
resolve_group(group) ==
    IF Len(group) = 1 THEN group
    ELSE first_kept_others_excluded(sort_by(group, "step_desc"))

\* The first loop of apply_special_rules: every AP item priced, with the base
\* name that decides where it is pushed
price_all(ap_items) ==
    [i \in 1..Len(ap_items) |->
        [ap_item |-> make_ap_item(ap_items[i]),
         base_name |-> extract_base_name(ap_items[i].name)]]

priced_items(c) == price_all(get_ap_items(c))

base_names_of(ap_items) == {extract_base_name(ap_items[i].name) : i \in 1..Len(ap_items)}

\* The keys of duplicate_groups after the first loop
duplicate_group_keys(c) == base_names_of(get_ap_items(c)) \cap highest_step_only_items

\* The orders in which a HashMap with these keys can be iterated
IterationOrders(keys) ==
    {o \in [1..Cardinality(keys) -> keys] :
        \A i, j \in 1..Cardinality(keys) : o[i] = o[j] => i = j}

ap_items_of(priced) == [i \in 1..Len(priced) |-> priced[i].ap_item]

RECURSIVE resolve_groups(_, _)
\* The second loop of apply_special_rules, over duplicate_groups in iteration order
resolve_groups(priced, order) ==
    IF Len(order) = 0 THEN <<>>
    ELSE resolve_group(ap_items_of(SelectSeq(priced, LAMBDA p : p.base_name = Head(order))))
            \o resolve_groups(priced, Tail(order))

\* result after both loops: the regular items, then the groups
push_all(priced, order) ==
    ap_items_of(SelectSeq(priced, LAMBDA p : p.base_name \notin highest_step_only_items))
      \o resolve_groups(priced, order)

\* order: the order in which this call's duplicate_groups map is iterated
apply_special_rules(c, order) == push_all(priced_items(c), order)

\* get_ap_items_breakdown without the sort
get_ap_items_breakdown_unsorted(c, order) == apply_special_rules(c, order)

get_ap_items_breakdown(c, order) ==
    sort_by(apply_special_rules(c, order), "name_then_step_desc")

-----------------------------------------------------------------------------
(* Category calculators *)

to_uppercase_char(ch) ==
    CASE ch = "a" -> "A" [] ch = "b" -> "B" [] ch = "c" -> "C" [] ch = "d" -> "D"
      [] ch = "e" -> "E" [] ch = "x" -> "X" [] OTHER -> ch

\* str::to_uppercase
to_uppercase(s) == [i \in 1..Len(s) |-> to_uppercase_char(s[i])]

\* stf_to_multiplier without the upper-casing
stf_to_multiplier_case_sensitive(stf) ==
    CASE stf = <<"A">> -> Some(1)
      [] stf = <<"B">> -> Some(2)
      [] stf = <<"C">> -> Some(3)
      [] stf = <<"D">> -> Some(4)
      [] OTHER -> None

stf_to_multiplier(stf) ==
    LET u == to_uppercase(stf)
    IN CASE u = <<"A">> -> Some(1)
         [] u = <<"B">> -> Some(2)
         [] u = <<"C">> -> Some(3)
         [] u = <<"D">> -> Some(4)
         [] OTHER -> None

\* skill.system.get_talent_value().and_then(|v| v.parse::<i32>().ok())
talent_value_option(item) ==
    LET v == get_talent_value(item.system)
    IN IF v.some THEN parse_i32(v.val) ELSE None

\* skill.system.get_st_f_value().and_then(|stf| Self::stf_to_multiplier(&stf))
stf_multiplier_option(item) ==
    LET stf == get_st_f_value(item.system)
    IN IF stf.some THEN stf_to_multiplier(stf.val) ELSE None

RECURSIVE calculate_skills_sum(_)
\* filter_map(..).sum() of calculate_skills_ap
calculate_skills_sum(items) ==
    IF Len(items) = 0 THEN 0
    ELSE LET tv == talent_value_option(Head(items))
             m == stf_multiplier_option(Head(items))
         IN (IF tv.some /\ m.some THEN talent_value_to_ap_cost(tv.val, m.val) ELSE 0)
              + calculate_skills_sum(Tail(items))

calculate_skills_ap(c) == calculate_skills_sum(get_skills(c))

RECURSIVE calculate_combat_skills_sum(_)
calculate_combat_skills_sum(items) ==
    IF Len(items) = 0 THEN 0
    ELSE LET tv == talent_value_option(Head(items))
             m == stf_multiplier_option(Head(items))
         IN (IF tv.some /\ m.some
             THEN combat_skill_talent_value_to_ap_cost(tv.val, m.val) ELSE 0)
              + calculate_combat_skills_sum(Tail(items))

calculate_combat_skills_ap(c) == calculate_combat_skills_sum(get_combat_skills(c))

RECURSIVE calculate_learned_abilities_ap(_)
calculate_learned_abilities_ap(items) ==
    IF Len(items) = 0 THEN 0
    ELSE LET tv == talent_value_option(Head(items))
             m == stf_multiplier_option(Head(items))
         IN (IF tv.some /\ m.some
             THEN learned_ability_talent_value_to_ap_cost(tv.val, m.val) ELSE 0)
              + calculate_learned_abilities_ap(Tail(items))

calculate_spells_and_rituals_ap(c) ==
    calculate_learned_abilities_ap(get_spells_and_rituals(c))

calculate_liturgies_and_ceremonies_ap(c) ==
    calculate_learned_abilities_ap(get_liturgies_and_ceremonies(c))

calculate_magic_tricks_ap(c) == Len(get_magic_tricks(c))

\* calculate_blessings_ap counting the magic tricks
calculate_blessings_ap_of_magic_tricks(c) == Len(get_magic_tricks(c))

calculate_blessings_ap(c) == Len(get_blessings(c))

LEP_MULTIPLIER == 4
ASP_MULTIPLIER == 4
KAP_MULTIPLIER == 4

calculate_lep_ap(c) ==
    IF c.system.some /\ c.system.val.status.some /\ c.system.val.status.val.wounds.some
    THEN LET advances == c.system.val.status.val.wounds.val.advances
         IN IF advances > 0 THEN talent_value_to_ap_cost(advances, LEP_MULTIPLIER) ELSE 0
    ELSE 0

\* calculate_asp_ap adding the rebuy points whatever their sign
calculate_asp_ap_unguarded(c) ==
    IF c.system.some /\ c.system.val.status.some
         /\ c.system.val.status.val.astralenergy.some
    THEN LET advances == c.system.val.status.val.astralenergy.val.advances
             rebuy_points == c.system.val.status.val.astralenergy.val.rebuy
         IN (IF advances > 0 THEN talent_value_to_ap_cost(advances, ASP_MULTIPLIER) ELSE 0)
              + wrapping_mul(rebuy_points, 2)
    ELSE 0

calculate_asp_ap(c) ==
    IF c.system.some /\ c.system.val.status.some
         /\ c.system.val.status.val.astralenergy.some
    THEN LET advances == c.system.val.status.val.astralenergy.val.advances
             rebuy_points == c.system.val.status.val.astralenergy.val.rebuy
         IN wrapping_add(
                IF advances > 0 THEN talent_value_to_ap_cost(advances, ASP_MULTIPLIER) ELSE 0,
                IF rebuy_points > 0 THEN wrapping_mul(rebuy_points, 2) ELSE 0)
    ELSE 0

calculate_kap_ap(c) ==
    IF c.system.some /\ c.system.val.status.some
         /\ c.system.val.status.val.karmaenergy.some
    THEN LET advances == c.system.val.status.val.karmaenergy.val.advances
             rebuy_points == c.system.val.status.val.karmaenergy.val.rebuy
         IN wrapping_add(
                IF advances > 0 THEN talent_value_to_ap_cost(advances, KAP_MULTIPLIER) ELSE 0,
                IF rebuy_points > 0 THEN wrapping_mul(rebuy_points, 2) ELSE 0)
    ELSE 0

calculate_energy_values_ap(c) ==
    SumSeq(<<calculate_lep_ap(c), calculate_asp_ap(c), calculate_kap_ap(c)>>)

\* rebuy_points * 2, or adding it to total_cost, leaves the range of i32
rebuy_overflows(pool, stf_multiplier) ==
    /\ pool.some
    /\ pool.val.rebuy > 0
    /\ \/ mul_overflows(pool.val.rebuy, 2)
       \/ add_overflows(IF pool.val.advances > 0
                        THEN talent_value_to_ap_cost(pool.val.advances, stf_multiplier)
                        ELSE 0,
                        wrapping_mul(pool.val.rebuy, 2))

\* calculate_asp_ap(c) meets an arithmetic overflow
asp_overflows(c) ==
    /\ c.system.some
    /\ c.system.val.status.some
    /\ rebuy_overflows(c.system.val.status.val.astralenergy, ASP_MULTIPLIER)

\* calculate_kap_ap(c) meets an arithmetic overflow
kap_overflows(c) ==
    /\ c.system.some
    /\ c.system.val.status.some
    /\ rebuy_overflows(c.system.val.status.val.karmaenergy, KAP_MULTIPLIER)

\* calculate_energy_values_ap(c) meets an arithmetic overflow
energy_values_overflow(c) ==
    \/ asp_overflows(c)
    \/ kap_overflows(c)
    \/ sum_overflows(calculate_lep_ap(c), <<calculate_asp_ap(c), calculate_kap_ap(c)>>)

nominal_value(char_value) == char_value.initial + char_value.advances

CharacteristicKeys == <<"mu", "kl", "in_", "ch", "ff", "ge", "ko", "kk">>

RECURSIVE characteristics_loop_stopping_at_error(_, _, _)
\* characteristics_loop leaving the loop at the first characteristic below 8
characteristics_loop_stopping_at_error(characteristics, i, total_cost) ==
    IF i > Len(CharacteristicKeys) THEN total_cost
    ELSE IF ~characteristics[CharacteristicKeys[i]].some
    THEN characteristics_loop_stopping_at_error(characteristics, i + 1, total_cost)
    ELSE IF ~characteristic_to_ap_cost(
                nominal_value(characteristics[CharacteristicKeys[i]].val)).ok
    THEN total_cost
    ELSE characteristics_loop_stopping_at_error(characteristics, i + 1,
            total_cost + characteristic_to_ap_cost(
                            nominal_value(characteristics[CharacteristicKeys[i]].val)).val)

RECURSIVE characteristics_loop(_, _, _)
\* the for loop of calculate_characteristics_ap over char_list
characteristics_loop(characteristics, i, total_cost) ==
    IF i > Len(CharacteristicKeys) THEN total_cost
    ELSE LET char_opt == characteristics[CharacteristicKeys[i]]
             ap_cost == IF char_opt.some
                        THEN characteristic_to_ap_cost(nominal_value(char_opt.val))
                        ELSE Err("absent")
         IN characteristics_loop(characteristics, i + 1,
                IF char_opt.some /\ ap_cost.ok THEN total_cost + ap_cost.val ELSE total_cost)

calculate_characteristics_ap(c) ==
    IF c.system.some /\ c.system.val.characteristics.some
    THEN characteristics_loop(c.system.val.characteristics.val, 1, 0)
    ELSE 0

-----------------------------------------------------------------------------
(* Aggregator *)

RECURSIVE items_total(_)
\* processed_items.iter().filter(|item| !item.was_excluded).map(|item| item.ap_cost).sum()
items_total(processed_items) ==
    IF Len(processed_items) = 0 THEN 0
    ELSE wrapping_add(
            IF ~Head(processed_items).was_excluded THEN Head(processed_items).ap_cost ELSE 0,
            items_total(Tail(processed_items)))

\* the costs items_total adds up, in the order of the list
counted_costs(processed_items) ==
    [i \in 1..Len(SelectSeq(processed_items, LAMBDA item : ~item.was_excluded)) |->
        SelectSeq(processed_items, LAMBDA item : ~item.was_excluded)[i].ap_cost]

\* calculate_total_spent_ap leaving the blessings out
calculate_total_spent_ap_without_blessings(c, order) ==
    LET processed_items == apply_special_rules(c, order)
    IN items_total(processed_items)
         + calculate_skills_ap(c)
         + calculate_combat_skills_ap(c)
         + calculate_spells_and_rituals_ap(c)
         + calculate_magic_tricks_ap(c)
         + calculate_liturgies_and_ceremonies_ap(c)
         + calculate_characteristics_ap(c)
         + calculate_energy_values_ap(c)

\* calculate_total_spent_ap once apply_special_rules has returned
\* the eight calculated values in the order calculate_total_spent_ap adds them
calculated_values(c) ==
    <<calculate_skills_ap(c),
      calculate_combat_skills_ap(c),
      calculate_spells_and_rituals_ap(c),
      calculate_magic_tricks_ap(c),
      calculate_liturgies_and_ceremonies_ap(c),
      calculate_blessings_ap(c),
      calculate_characteristics_ap(c),
      calculate_energy_values_ap(c)>>

total_spent_of(processed_items, c) ==
    SumSeq(<<items_total(processed_items)>> \o calculated_values(c))

\* one of the additions of calculate_total_spent_ap leaves the range of i32
total_overflows(processed_items, c) ==
    \/ energy_values_overflow(c)
    \/ sum_overflows(0, counted_costs(processed_items))
    \/ sum_overflows(items_total(processed_items), calculated_values(c))

calculate_total_spent_ap(c, order) == total_spent_of(apply_special_rules(c, order), c)

EmptyMap == [k \in {} |-> 0]

\* *categories.entry(key).or_insert(0) += v
entry_add(m, key, v) ==
    [k \in DOMAIN m \cup {key} |->
        IF k = key THEN wrapping_add(IF key \in DOMAIN m THEN m[key] ELSE 0, v) ELSE m[k]]

\* the addition of entry_add leaves the range of i32
entry_add_overflows(m, key, v) == add_overflows(IF key \in DOMAIN m THEN m[key] ELSE 0, v)

\* categories.insert(key, v)
insert(m, key, v) == [k \in DOMAIN m \cup {key} |-> IF k = key THEN v ELSE m[k]]

insert_if_positive(m, key, v) == IF v > 0 THEN insert(m, key, v) ELSE m

RECURSIVE categories_of_items_counting_excluded(_, _)
\* the first loop of get_ap_by_category without the filter on was_excluded
categories_of_items_counting_excluded(processed_items, categories) ==
    IF Len(processed_items) = 0 THEN categories
    ELSE LET item == Head(processed_items)
         IN categories_of_items_counting_excluded(Tail(processed_items),
                IF item.ap_cost # 0
                THEN entry_add(categories, item.item_type, item.ap_cost)
                ELSE categories)

RECURSIVE categories_of_items(_, _)
\* the first loop of get_ap_by_category
categories_of_items(processed_items, categories) ==
    IF Len(processed_items) = 0 THEN categories
    ELSE LET item == Head(processed_items)
         IN categories_of_items(Tail(processed_items),
                IF ~item.was_excluded /\ item.ap_cost # 0
                THEN entry_add(categories, item.item_type, item.ap_cost)
                ELSE categories)

RECURSIVE categories_overflow(_, _)
\* one of the additions of the first loop of get_ap_by_category leaves the
\* range of i32
categories_overflow(processed_items, categories) ==
    IF Len(processed_items) = 0 THEN FALSE
    ELSE IF ~Head(processed_items).was_excluded /\ Head(processed_items).ap_cost # 0
    THEN \/ entry_add_overflows(categories, Head(processed_items).item_type,
                                Head(processed_items).ap_cost)
         \/ categories_overflow(Tail(processed_items),
                entry_add(categories, Head(processed_items).item_type,
                          Head(processed_items).ap_cost))
    ELSE categories_overflow(Tail(processed_items), categories)

\* The calculated categories in the order get_ap_by_category inserts them
calculated_categories(c) ==
    <<<<"Skills", calculate_skills_ap(c)>>,
      <<"Combat Skills", calculate_combat_skills_ap(c)>>,
      <<"Spells/Rituals", calculate_spells_and_rituals_ap(c)>>,
      <<"Magic Tricks", calculate_magic_tricks_ap(c)>>,
      <<"Liturgies/Ceremonies", calculate_liturgies_and_ceremonies_ap(c)>>,
      <<"Blessings", calculate_blessings_ap(c)>>,
      <<"Energies (LeP/AsP/KaP)", calculate_energy_values_ap(c)>>,
      <<"Characteristics", calculate_characteristics_ap(c)>>>>

RECURSIVE insert_calculated(_, _)
\* the eight `if x > 0 { categories.insert(..) }` statements, one after the other
insert_calculated(categories, entries) ==
    IF Len(entries) = 0 THEN categories
    ELSE insert_calculated(
            insert_if_positive(categories, Head(entries)[1], Head(entries)[2]),
            Tail(entries))

get_ap_by_category(c, order) ==
    insert_calculated(categories_of_items(apply_special_rules(c, order), EmptyMap),
                      calculated_categories(c))

-----------------------------------------------------------------------------
(* The pure functions, each called on arguments drawn from bounded sets *)

\* what the character variable holds while no character is under analysis
NoCharacter == [items |-> <<>>, system |-> None]

CurveArgs ==
    [talent_value : (0 - MaxNegative)..MaxTalentValue,
     stf_multiplier : 0..MaxMultiplier,
     value : (0 - MaxNegative)..MaxCharacteristicValue]

InitCurve ==
    /\ character = NoCharacter
    /\ args \in CurveArgs
    /\ op = "none"
    /\ result = "none"
    /\ app = new
    /\ callers = NoCallers

TalentValueToApCost ==
    /\ op' = "talent_value_to_ap_cost"
    /\ result' = talent_value_to_ap_cost(args.talent_value, args.stf_multiplier)
    /\ UNCHANGED <<character, args, app, callers>>

CombatSkillTalentValueToApCost ==
    /\ op' = "combat_skill_talent_value_to_ap_cost"
    /\ result' = combat_skill_talent_value_to_ap_cost(args.talent_value, args.stf_multiplier)
    /\ UNCHANGED <<character, args, app, callers>>

LearnedAbilityTalentValueToApCost ==
    /\ op' = "learned_ability_talent_value_to_ap_cost"
    /\ result' = learned_ability_talent_value_to_ap_cost(args.talent_value, args.stf_multiplier)
    /\ UNCHANGED <<character, args, app, callers>>

CharacteristicToApCost ==
    /\ op' = "characteristic_to_ap_cost"
    /\ result' = characteristic_to_ap_cost(args.value)
    /\ UNCHANGED <<character, args, app, callers>>

NextCurve ==
    \/ TalentValueToApCost
    \/ CombatSkillTalentValueToApCost
    \/ LearnedAbilityTalentValueToApCost
    \/ CharacteristicToApCost

SpecCurve == InitCurve /\ [][NextCurve]_vars

ParseAlphabet == {"0", "1", "7", ";", " ", "-", "+", "x"}

RawTexts == UNION {[1..n -> ParseAlphabet] : n \in 0..MaxRawLen}

InitParse ==
    /\ character = NoCharacter
    /\ args \in [raw : RawTexts]
    /\ op = "none"
    /\ result = "none"
    /\ app = new
    /\ callers = NoCallers

ParseApValue ==
    /\ op' = "parse_ap_value"
    /\ result' = parse_ap_value(args.raw)
    /\ UNCHANGED <<character, args, app, callers>>

NextParse == ParseApValue

SpecParse == InitParse /\ [][NextParse]_vars

-----------------------------------------------------------------------------
(* The engine operations, each called on the character under analysis *)

NoArgs == [none |-> TRUE]

Character(items, system) == [items |-> items, system |-> system]

CharacterSystem(characteristics, status, details) ==
    Some([characteristics |-> characteristics, status |-> status, details |-> details])

StatusValues(wounds, astralenergy, karmaenergy) ==
    Some([wounds |-> wounds, astralenergy |-> astralenergy, karmaenergy |-> karmaenergy])

CalculateLepAp ==
    /\ op' = "calculate_lep_ap"
    /\ result' = calculate_lep_ap(character)
    /\ UNCHANGED <<character, args, app, callers>>

CalculateAspAp ==
    /\ \E panics \in may_panic_if(asp_overflows(character)) :
          returns("calculate_asp_ap", panics, calculate_asp_ap(character))
    /\ UNCHANGED <<character, args, app, callers>>

CalculateKapAp ==
    /\ \E panics \in may_panic_if(kap_overflows(character)) :
          returns("calculate_kap_ap", panics, calculate_kap_ap(character))
    /\ UNCHANGED <<character, args, app, callers>>

CalculateEnergyValuesAp ==
    /\ \E panics \in may_panic_if(energy_values_overflow(character)) :
          returns("calculate_energy_values_ap", panics, calculate_energy_values_ap(character))
    /\ UNCHANGED <<character, args, app, callers>>

\* Characters that differ in their energy pools only
AdvancesValues == {0 - 1, 0, 5, 12, 13, 15}
RebuyValues == {0 - 1, 0, 3}

WoundOptions == {None} \cup {Some([advances |-> a]) : a \in AdvancesValues}

EnergyOptions ==
    {None} \cup {Some([advances |-> a, rebuy |-> r]) : a \in AdvancesValues, r \in RebuyValues}

EnergyCharacters ==
    {Character(<<>>, None), Character(<<>>, CharacterSystem(None, None, None))}
      \cup {Character(<<>>, CharacterSystem(None, StatusValues(w, a, k), None)) :
              w \in WoundOptions, a \in EnergyOptions, k \in EnergyOptions}

InitEnergy ==
    /\ character \in EnergyCharacters
    /\ args = NoArgs
    /\ op = "none"
    /\ result = "none"
    /\ app = new
    /\ callers = NoCallers

NextEnergy ==
    \/ CalculateLepAp
    \/ CalculateAspAp
    \/ CalculateKapAp
    \/ CalculateEnergyValuesAp

SpecEnergy == InitEnergy /\ [][NextEnergy]_vars

Item(name, item_type, ap_value, step, talent_value, st_f) ==
    [name |-> name,
     item_type |-> item_type,
     system |-> [APValue |-> ap_value, step |-> step,
                 talentValue |-> talent_value, StF |-> st_f]]

\* all sequences over pool of length at most n
SeqsUpTo(pool, n) == UNION {[1..k -> pool] : k \in 0..n}

\* calculate_skills_ap sorting the character's own item list by name
CalculateSkillsAp_sorting_in_place ==
    /\ "none" \in DOMAIN args
    /\ op' = "calculate_skills_ap"
    /\ result' = calculate_skills_ap(character)
    /\ character' = [character EXCEPT !.items = sort_by(character.items, "name")]
    /\ UNCHANGED <<args, app, callers>>

CalculateSkillsAp ==
    /\ "none" \in DOMAIN args
    /\ op' = "calculate_skills_ap"
    /\ result' = calculate_skills_ap(character)
    /\ UNCHANGED <<character, args, app, callers>>

CalculateCombatSkillsAp ==
    /\ "none" \in DOMAIN args
    /\ op' = "calculate_combat_skills_ap"
    /\ result' = calculate_combat_skills_ap(character)
    /\ UNCHANGED <<character, args, app, callers>>

CalculateSpellsAndRitualsAp ==
    /\ "none" \in DOMAIN args
    /\ op' = "calculate_spells_and_rituals_ap"
    /\ result' = calculate_spells_and_rituals_ap(character)
    /\ UNCHANGED <<character, args, app, callers>>

CalculateLiturgiesAndCeremoniesAp ==
    /\ "none" \in DOMAIN args
    /\ op' = "calculate_liturgies_and_ceremonies_ap"
    /\ result' = calculate_liturgies_and_ceremonies_ap(character)
    /\ UNCHANGED <<character, args, app, callers>>

CalculateMagicTricksAp ==
    /\ "none" \in DOMAIN args
    /\ op' = "calculate_magic_tricks_ap"
    /\ result' = calculate_magic_tricks_ap(character)
    /\ UNCHANGED <<character, args, app, callers>>

CalculateBlessingsAp ==
    /\ "none" \in DOMAIN args
    /\ op' = "calculate_blessings_ap"
    /\ result' = calculate_blessings_ap(character)
    /\ UNCHANGED <<character, args, app, callers>>

StfToMultiplier ==
    /\ "stf" \in DOMAIN args
    /\ op' = "stf_to_multiplier"
    /\ result' = stf_to_multiplier(args.stf)
    /\ UNCHANGED <<character, args, app, callers>>

\* Characters made of talent-based items: every talent type, with talent value
\* and grade present and valid, or one of them absent or unusable
TalentTypes == {"skill", "combatskill", "spell", "ritual", "liturgy", "ceremony"}

TalentVariants ==
    {<<<<"a">>, JNumber(7), JString(<<"B">>)>>,
     <<<<"b">>, JString(<<"1", "3">>), JString(<<"c">>)>>,
     <<<<"c">>, JNumber(7), JString(<<"E">>)>>,
     <<<<"d">>, JNumber(7), Absent>>,
     <<<<"e">>, Absent, JString(<<"A">>)>>,
     <<<<"f">>, JString(<<"x">>), JString(<<"D">>)>>}

TalentItems == {Item(v[1], t, Absent, Absent, v[2], v[3]) : t \in TalentTypes, v \in TalentVariants}

TalentCharacters == {Character(items, None) : items \in SeqsUpTo(TalentItems, MaxTalentItems)}

GradeAlphabet == {"A", "a", "B", "b", "C", "c", "D", "d", "E", "e", " "}

GradeTexts == SeqsUpTo(GradeAlphabet, MaxGradeLen)

InitTalent ==
    /\ \/ character \in TalentCharacters /\ args = NoArgs
       \/ character = NoCharacter /\ args \in [stf : GradeTexts]
    /\ op = "none"
    /\ result = "none"
    /\ app = new
    /\ callers = NoCallers

NextTalent ==
    \/ CalculateSkillsAp
    \/ CalculateCombatSkillsAp
    \/ CalculateSpellsAndRitualsAp
    \/ CalculateLiturgiesAndCeremoniesAp
    \/ StfToMultiplier

SpecTalent == InitTalent /\ [][NextTalent]_vars

\* Characters made of magic tricks, blessings and spells, bare or carrying a
\* talent value, a grade, a step and an AP value
FlatTypes == {"magictrick", "blessing", "spell"}

FlatItems ==
    {Item(<<"a">>, t, Absent, Absent, Absent, Absent) : t \in FlatTypes}
      \cup {Item(<<"b">>, t, JNumber(5), JNumber(2), JNumber(7), JString(<<"B">>)) :
              t \in FlatTypes}

FlatCharacters == {Character(items, None) : items \in SeqsUpTo(FlatItems, MaxFlatItems)}

InitFlat ==
    /\ character \in FlatCharacters
    /\ args = NoArgs
    /\ op = "none"
    /\ result = "none"
    /\ app = new
    /\ callers = NoCallers

NextFlat ==
    \/ CalculateMagicTricksAp
    \/ CalculateBlessingsAp

SpecFlat == InitFlat /\ [][NextFlat]_vars

\* apply_special_rules is private; it is called here on its own so that the
\* list it hands to its three callers can be inspected
ApplySpecialRules ==
    /\ "none" \in DOMAIN args
    /\ \E order \in IterationOrders(duplicate_group_keys(character)) :
          \E panics \in may_panic(character) :
              returns("apply_special_rules", panics, apply_special_rules(character, order))
    /\ UNCHANGED <<character, args, app, callers>>

CalculateTotalSpentAp ==
    /\ "none" \in DOMAIN args
    /\ \E order \in IterationOrders(duplicate_group_keys(character)) :
          \E panics \in may_panic_adding(character,
                            total_overflows(apply_special_rules(character, order), character)) :
              returns("calculate_total_spent_ap", panics, calculate_total_spent_ap(character, order))
    /\ UNCHANGED <<character, args, app, callers>>

GetApByCategory ==
    /\ "none" \in DOMAIN args
    /\ \E order \in IterationOrders(duplicate_group_keys(character)) :
          \E panics \in may_panic_adding(character,
                            \/ energy_values_overflow(character)
                            \/ categories_overflow(apply_special_rules(character, order),
                                                   EmptyMap)) :
              returns("get_ap_by_category", panics, get_ap_by_category(character, order))
    /\ UNCHANGED <<character, args, app, callers>>

GetApItemsBreakdown ==
    /\ "none" \in DOMAIN args
    /\ \E order \in IterationOrders(duplicate_group_keys(character)) :
          \E panics \in may_panic(character) :
              returns("get_ap_items_breakdown", panics, get_ap_items_breakdown(character, order))
    /\ UNCHANGED <<character, args, app, callers>>

Qualified(base, qualifier) == base \o <<" ", "(", qualifier, ")">>

Reich == <<"R", "e", "i", "c", "h">>

\* Characters made of advantages and disadvantages, some of them under the
\* highest-step-only rule, with the step absent, 1 or 2
DupNamesAndSteps ==
    {<<Qualified(Prinzipientreue, "A"), Absent>>,
     <<Qualified(Prinzipientreue, "A"), JNumber(1)>>,
     <<Qualified(Prinzipientreue, "A"), JNumber(2)>>,
     <<Qualified(Prinzipientreue, "B"), JNumber(1)>>,
     <<Qualified(Prinzipientreue, "B"), JNumber(2)>>,
     <<Verpflichtungen, Absent>>,
     <<Verpflichtungen, JNumber(2)>>,
     <<Qualified(Reich, "A"), JNumber(2)>>}

DupItems ==
    {Item(ns[1], IF ns[1] = Qualified(Reich, "A") THEN "advantage" ELSE "disadvantage",
          JNumber(5), ns[2], Absent, Absent) : ns \in DupNamesAndSteps}

DupCharacters == {Character(items, None) : items \in SeqsUpTo(DupItems, MaxDupItems)}

InitDup ==
    /\ character \in DupCharacters
    /\ args = NoArgs
    /\ op = "none"
    /\ result = "none"
    /\ app = new
    /\ callers = NoCallers

NextDup ==
    \/ ApplySpecialRules
    \/ CalculateTotalSpentAp
    \/ GetApByCategory
    \/ GetApItemsBreakdown

SpecDup == InitDup /\ [][NextDup]_vars

\* Characters with one item of every kind the total is made of, and with or
\* without characteristics and energy pools
TotalItems ==
    {Item(Qualified(Reich, "A"), "advantage", JString(<<"5">>), JNumber(2), Absent, Absent),
     Item(Qualified(Prinzipientreue, "A"), "disadvantage",
          JNumber(0 - 10), JNumber(1), Absent, Absent),
     Item(Qualified(Prinzipientreue, "B"), "disadvantage",
          JString(<<"-", "1", "0", ";", "-", "2", "0">>), JNumber(2), Absent, Absent),
     Item(<<"K">>, "skill", Absent, Absent, JNumber(13), JString(<<"B">>)),
     Item(<<"S">>, "combatskill", Absent, Absent, JNumber(8), JString(<<"C">>)),
     Item(<<"I">>, "spell", Absent, Absent, JNumber(3), JString(<<"A">>)),
     Item(<<"R">>, "ritual", JNumber(4), Absent, JNumber(2), JString(<<"D">>)),
     Item(<<"M">>, "magictrick", Absent, Absent, Absent, Absent),
     Item(<<"L">>, "liturgy", Absent, Absent, JNumber(0), JString(<<"b">>)),
     Item(<<"B">>, "blessing", Absent, Absent, Absent, Absent)}

CharacteristicValue(initial, advances) == Some([initial |-> initial, advances |-> advances])

Characteristics(mu, kl) ==
    Some([mu |-> mu, kl |-> kl, in_ |-> CharacteristicValue(8, 0), ch |-> None,
          ff |-> CharacteristicValue(8, 3), ge |-> None, ko |-> None, kk |-> None])

TotalSystems ==
    {None,
     CharacterSystem(Characteristics(CharacteristicValue(8, 7), CharacteristicValue(6, 1)),
                     None, None),
     CharacterSystem(Characteristics(None, CharacteristicValue(12, 2)),
                     StatusValues(Some([advances |-> 2]),
                                  Some([advances |-> 13, rebuy |-> 1]),
                                  None),
                     None)}

TotalCharacters ==
    {Character(items, system) :
        items \in SeqsUpTo(TotalItems, MaxTotalItems), system \in TotalSystems}

InitTotal ==
    /\ character \in TotalCharacters
    /\ args = NoArgs
    /\ op = "none"
    /\ result = "none"
    /\ app = new
    /\ callers = NoCallers

NextTotal == CalculateTotalSpentAp

SpecTotal == InitTotal /\ [][NextTotal]_vars

CalculateCharacteristicsAp ==
    /\ "none" \in DOMAIN args
    /\ op' = "calculate_characteristics_ap"
    /\ result' = calculate_characteristics_ap(character)
    /\ UNCHANGED <<character, args, app, callers>>

\* Characters whose items differ in the shape of the AP value (a list, a single
\* value, a negative value, an unparsable text, none) and in the step (absent,
\* below 1, inside and outside the list), and characters that differ in their
\* characteristics only; the two disadvantages share a base name of the
\* highest-step-only rule
PricedNamesTypesValues ==
    {<<<<"M">>, "advantage", JString(<<"3", ";", "5", ";", "8">>)>>,
     <<<<"S">>, "advantage", JString(<<"5">>)>>,
     <<<<"N">>, "advantage", JNumber(0 - 5)>>,
     <<Qualified(Prinzipientreue, "A"), "disadvantage", JNumber(0 - 10)>>,
     <<Qualified(Prinzipientreue, "B"), "disadvantage", JString(<<"x">>)>>,
     <<<<"O">>, "equipment", Absent>>}

PricedSteps == {Absent, JNumber(0 - 1), JNumber(0), JString(<<"2">>), JNumber(4)}

PricedItems ==
    {Item(ntv[1], ntv[2], ntv[3], step, Absent, Absent) :
        ntv \in PricedNamesTypesValues, step \in PricedSteps}

PricedSystems ==
    {CharacterSystem(Characteristics(mu, kl), None, None) :
        mu \in {None, CharacteristicValue(6, 1), CharacteristicValue(8, 7)},
        kl \in {None, CharacteristicValue(0 - 1, 0), CharacteristicValue(7, 3)}}

PricedCharacters ==
    {Character(items, None) : items \in SeqsUpTo(PricedItems, MaxPricedItems)}
      \cup {Character(<<>>, system) : system \in PricedSystems}

InitItem ==
    /\ character \in PricedCharacters
    /\ args = NoArgs
    /\ op = "none"
    /\ result = "none"
    /\ app = new
    /\ callers = NoCallers

NextItem ==
    \/ GetApItemsBreakdown
    \/ GetApByCategory
    \/ CalculateTotalSpentAp
    \/ CalculateCharacteristicsAp

SpecItem == InitItem /\ [][NextItem]_vars

-----------------------------------------------------------------------------
(* The comparison of the reporting layer *)

Details(experience) == Some([experience |-> experience])

Experience(total, spent) == Some([total |-> total, spent |-> spent])

\* character.system.as_ref().and_then(details).and_then(experience).map(spent)
foundry_spent_option(c) ==
    IF ~c.system.some THEN None
    ELSE IF ~c.system.val.details.some THEN None
    ELSE IF ~c.system.val.details.val.experience.some THEN None
    ELSE Some(c.system.val.details.val.experience.val.spent)

\* show_total_spent with the experience total taken for the spent value
show_total_spent_of_experience_total(c, order) ==
    LET calculated_total_spent_ap == calculate_total_spent_ap(c, order)
        foundry_spent_ap ==
            IF foundry_spent_option(c).some
            THEN c.system.val.details.val.experience.val.total
            ELSE 0
    IN [calculated_total_spent_ap |-> calculated_total_spent_ap,
        foundry_spent_ap |-> foundry_spent_ap,
        difference |-> calculated_total_spent_ap - foundry_spent_ap]

\* let difference = calculated_total_spent_ap - foundry_spent_ap
comparison(calculated_total_spent_ap, foundry_spent_ap) ==
    [calculated_total_spent_ap |-> calculated_total_spent_ap,
     foundry_spent_ap |-> foundry_spent_ap,
     difference |-> calculated_total_spent_ap - foundry_spent_ap]

\* The three numbers show_total_spent computes before it draws them
show_total_spent(c, order) ==
    comparison(calculate_total_spent_ap(c, order), unwrap_or(foundry_spent_option(c), 0))

ShowTotalSpent ==
    /\ "none" \in DOMAIN args
    /\ \E order \in IterationOrders(duplicate_group_keys(character)) :
          \E panics \in may_panic_adding(character,
                            total_overflows(apply_special_rules(character, order), character)) :
              returns("show_total_spent", panics, show_total_spent(character, order))
    /\ UNCHANGED <<character, args, app, callers>>

CompareItems ==
    {Item(Qualified(Reich, "A"), "advantage", JString(<<"5", "0">>), JNumber(2), Absent, Absent),
     Item(Qualified(Prinzipientreue, "A"), "disadvantage",
          JNumber(0 - 10), JNumber(1), Absent, Absent),
     Item(<<"B">>, "blessing", Absent, Absent, Absent, Absent)}

SpentValues == {0 - 10, 0, 1, 100}
TotalValues == {100, 120}

CompareSystems ==
    {None,
     CharacterSystem(None, None, None),
     CharacterSystem(None, None, Details(None))}
      \cup {CharacterSystem(None, None, Details(Experience(total, spent))) :
               total \in TotalValues, spent \in SpentValues}

CompareCharacters ==
    {Character(items, system) :
        items \in SeqsUpTo(CompareItems, MaxCompareItems), system \in CompareSystems}

InitCompare ==
    /\ character \in CompareCharacters
    /\ args = NoArgs
    /\ op = "none"
    /\ result = "none"
    /\ app = new
    /\ callers = NoCallers

NextCompare ==
    \/ ShowTotalSpent
    \/ CalculateTotalSpentAp

SpecCompare == InitCompare /\ [][NextCompare]_vars

\* Characters for the engine as a whole: items of every kind, among them
\* talents with a negative value, an AP item whose type is the label of a
\* calculated category, an AP value and a list at the end of the i32 range,
\* and systems with
\* characteristics below 8, negative advances, negative rebuy points and an
\* experience record
EngineItems ==
    {Item(<<"K">>, "skill", Absent, Absent, JNumber(0 - 2), JString(<<"B">>)),
     Item(<<"J">>, "skill", Absent, Absent, JNumber(14), JString(<<"A">>)),
     Item(<<"S">>, "combatskill", Absent, Absent, JNumber(0 - 1), JString(<<"C">>)),
     Item(<<"T">>, "combatskill", Absent, Absent, JNumber(8), JString(<<"C">>)),
     Item(<<"I">>, "spell", Absent, Absent, JNumber(0 - 3), JString(<<"A">>)),
     Item(<<"L">>, "liturgy", Absent, Absent, JNumber(13), JString(<<"D">>)),
     Item(<<"M">>, "magictrick", Absent, Absent, Absent, Absent),
     Item(<<"B">>, "blessing", Absent, Absent, Absent, Absent),
     Item(Qualified(Prinzipientreue, "A"), "disadvantage",
          JNumber(0 - 10), JNumber(1), Absent, Absent),
     Item(<<"W">>, "Skills", JNumber(7), Absent, Absent, Absent),
     Item(<<"V">>, "advantage", JNumber(I32Max), JNumber(2), Absent, Absent),
     Item(<<"U">>, "advantage",
          JString(to_string(I32Max) \o <<";">> \o to_string(I32Max) \o <<";", "2">>),
          JNumber(3), Absent, Absent)}

\* the least number of rebuy points whose double leaves i32
HalfRange == (I32Max \div 2) + 1

EngineSystems ==
    {None,
     CharacterSystem(Characteristics(CharacteristicValue(6, 1), CharacteristicValue(8, 7)),
                     StatusValues(Some([advances |-> 0 - 1]),
                                  Some([advances |-> 13, rebuy |-> 0 - 1]),
                                  Some([advances |-> 0 - 2, rebuy |-> 3])),
                     Details(Experience(100, 50))),
     CharacterSystem(Characteristics(None, CharacteristicValue(0 - 1, 0)),
                     StatusValues(Some([advances |-> 2]), None,
                                  Some([advances |-> 0, rebuy |-> HalfRange])),
                     None)}

EngineCharacters ==
    {Character(items, system) :
        items \in SeqsUpTo(EngineItems, MaxEngineItems), system \in EngineSystems}

InitEngine ==
    /\ character \in EngineCharacters
    /\ args = NoArgs
    /\ op = "none"
    /\ result = "none"
    /\ app = new
    /\ callers = NoCallers

NextEngine ==
    \/ CalculateTotalSpentAp
    \/ GetApByCategory
    \/ GetApItemsBreakdown
    \/ CalculateSkillsAp
    \/ CalculateCombatSkillsAp
    \/ CalculateSpellsAndRitualsAp
    \/ CalculateMagicTricksAp
    \/ CalculateLiturgiesAndCeremoniesAp
    \/ CalculateBlessingsAp
    \/ CalculateCharacteristicsAp
    \/ CalculateEnergyValuesAp

SpecEngine == InitEngine /\ [][NextEngine]_vars

\* Characters whose items differ in the step attribute: absent, a text that
\* is no integer, an integer with a blank in front, 1 and 2; two of the names
\* share a base name of the highest-step-only rule
StepNames == {Qualified(Prinzipientreue, "A"), Qualified(Prinzipientreue, "B"), <<"S">>}

StepApValues == {JNumber(0 - 10), JString(<<"3", ";", "5">>)}

StepValues == {Absent, JString(<<"x">>), JString(<<" ", "2">>), JNumber(1), JNumber(2)}

StepItems ==
    {Item(name, "disadvantage", ap_value, step, Absent, Absent) :
        name \in StepNames, ap_value \in StepApValues, step \in StepValues}

StepCharacters == {Character(items, None) : items \in SeqsUpTo(StepItems, MaxStepItems)}

InitStep ==
    /\ character \in StepCharacters
    /\ args = NoArgs
    /\ op = "none"
    /\ result = "none"
    /\ app = new
    /\ callers = NoCallers

NextStep ==
    \/ ApplySpecialRules
    \/ GetApItemsBreakdown
    \/ CalculateTotalSpentAp

SpecStep == InitStep /\ [][NextStep]_vars

\* Characters whose items are all regular ones, one of them priced at the
\* largest i32 and one at a negative value, in every order
OrderItems ==
    {Item(<<"A">>, "advantage", JNumber(I32Max), Absent, Absent, Absent),
     Item(<<"W">>, "advantage", JNumber(7), Absent, Absent, Absent),
     Item(<<"N">>, "disadvantage", JNumber(0 - 10), Absent, Absent, Absent)}

OrderCharacters == {Character(items, None) : items \in SeqsUpTo(OrderItems, MaxOrderItems)}

InitOrder ==
    /\ character \in OrderCharacters
    /\ args = NoArgs
    /\ op = "none"
    /\ result = "none"
    /\ app = new
    /\ callers = NoCallers

NextOrder ==
    \/ CalculateTotalSpentAp
    \/ GetApByCategory

SpecOrder == InitOrder /\ [][NextOrder]_vars

-----------------------------------------------------------------------------
(* Callers side by side.  ApCalculator is a unit struct and its operations   *)
(* are associated functions over &Character: all a call works on is its own *)
(* character snapshot and its own locals.  A call is taken in two steps, the *)
(* list of apply_special_rules first and the rest of the body after it, so   *)
(* that the calls of several callers interleave.                             *)

PublicOperations ==
    {"calculate_total_spent_ap", "get_ap_by_category", "get_ap_items_breakdown"}

\* the body of a public operation after its call of apply_special_rules
finish(operation, processed_items, c) ==
    CASE operation = "calculate_total_spent_ap" -> total_spent_of(processed_items, c)
      [] operation = "get_ap_by_category" ->
            insert_calculated(categories_of_items(processed_items, EmptyMap),
                              calculated_categories(c))
      [] operation = "get_ap_items_breakdown" ->
            sort_by(processed_items, "name_then_step_desc")

\* the local processed_items of caller j once caller k has made its call
called(j, k, operation, processed_items) ==
    IF j = k
    THEN [character |-> callers[k].character, pc |-> "called",
          operation |-> operation, processed_items |-> processed_items]
    ELSE callers[j]

\* Call with one list of processed items shared by all callers in a call
Call_into_shared_list(k) ==
    /\ callers[k].pc \in {"idle", "returned"}
    /\ \E operation \in PublicOperations :
          \E order \in IterationOrders(duplicate_group_keys(callers[k].character)) :
              callers' =
                [j \in DOMAIN callers |->
                    IF j # k /\ callers[j].pc = "called"
                    THEN [callers[j] EXCEPT !.processed_items =
                             apply_special_rules(callers[k].character, order)]
                    ELSE called(j, k, operation,
                                apply_special_rules(callers[k].character, order))]
    /\ UNCHANGED <<character, args, op, result, app>>

\* caller k enters a public operation on its snapshot and gets the list of
\* apply_special_rules into its local processed_items
Call(k) ==
    /\ callers[k].pc \in {"idle", "returned"}
    /\ \E operation \in PublicOperations :
          \E order \in IterationOrders(duplicate_group_keys(callers[k].character)) :
              callers' =
                [j \in DOMAIN callers |->
                    called(j, k, operation,
                           apply_special_rules(callers[k].character, order))]
    /\ UNCHANGED <<character, args, op, result, app>>

\* caller k runs the rest of the body and returns
Return(k) ==
    /\ callers[k].pc = "called"
    /\ callers' =
          [callers EXCEPT ![k] =
              [character |-> @.character, pc |-> "returned", operation |-> @.operation,
               result |-> finish(@.operation, @.processed_items, @.character)]]
    /\ UNCHANGED <<character, args, op, result, app>>

\* Snapshots with no duplicate group, with one group of two and with two groups
ConcurrentCharacters ==
    {Character(<<Item(Qualified(Reich, "A"), "advantage",
                      JString(<<"5">>), JNumber(2), Absent, Absent)>>, None),
     Character(<<Item(Qualified(Prinzipientreue, "A"), "disadvantage",
                      JNumber(0 - 10), JNumber(1), Absent, Absent),
                 Item(Qualified(Prinzipientreue, "B"), "disadvantage",
                      JNumber(0 - 20), JNumber(2), Absent, Absent)>>, None),
     Character(<<Item(Verpflichtungen, "disadvantage",
                      JNumber(0 - 5), Absent, Absent, Absent),
                 Item(Qualified(Prinzipientreue, "A"), "disadvantage",
                      JNumber(0 - 10), JNumber(1), Absent, Absent)>>, None)}

InitConcurrent ==
    /\ character = NoCharacter
    /\ args = NoArgs
    /\ op = "none"
    /\ result = "none"
    /\ app = new
    /\ callers \in [1..NumCallers -> {[character |-> c, pc |-> "idle"] : c \in ConcurrentCharacters}]

NextConcurrent == \E k \in DOMAIN callers : Call(k) \/ Return(k)

SpecConcurrent == InitConcurrent /\ [][NextConcurrent]_vars

-----------------------------------------------------------------------------
(* The application shell.  It keeps the loaded character and the path it was *)
(* loaded from; the files live outside the program and may change between    *)
(* two load attempts.                                                        *)

NumPaths == 2

Paths == 1..NumPaths

\* what a path may hold: nothing that can be read, a text that is no JSON, or
\* a JSON document with or without the fields a Character requires
Missing == [kind |-> "missing"]

NotJson == [kind |-> "text"]

Document(name, character_type, items, system) ==
    [kind |-> "json", name |-> name, type |-> character_type,
     items |-> items, system |-> system]

Contents ==
    {Missing,
     NotJson,
     Document(Some("A"), Some("character"), Some(<<>>), None),
     Document(Some("B"), Some("character"),
              Some(<<Item(<<"W">>, "advantage", JNumber(7), Absent, Absent, Absent)>>),
              CharacterSystem(None, None, None)),
     Document(Some("C"), Some("character"), None, None),
     Document(None, Some("character"), Some(<<>>), None)}

\* std::fs::read_to_string(path)
read_to_string(files, path) ==
    IF files[path].kind = "missing" THEN Err("io") ELSE Ok(files[path])

\* serde_json::from_str::<Character>(&content): name, type and items are
\* required, img and system are optional
from_str(content) ==
    IF content.kind # "json" THEN Err("syntax")
    ELSE IF ~content.name.some \/ ~content.type.some \/ ~content.items.some
    THEN Err("missing field")
    ELSE Ok(Character(content.items.val, content.system))

\* Character::from_file(path)
from_file(files, path) ==
    IF ~read_to_string(files, path).ok THEN read_to_string(files, path)
    ELSE from_str(read_to_string(files, path).val)

\* load_character storing the path before the file is read
load_character_selecting_first(self, loaded, path) ==
    IF ~loaded.ok
    THEN [self |-> [self EXCEPT !.selected_file = Some(path)], result |-> loaded]
    ELSE [self |-> [current_character |-> Some(loaded.val), selected_file |-> Some(path)],
          result |-> Ok("unit")]

\* App::load_character(&mut self, path), loaded being Character::from_file(path)
load_character(self, loaded, path) ==
    IF ~loaded.ok
    THEN [self |-> self, result |-> loaded]
    ELSE [self |-> [current_character |-> Some(loaded.val), selected_file |-> Some(path)],
          result |-> Ok("unit")]

\* what a click on "Load Character File" leaves behind: the path picked in
\* the dialog, if any, and how the load ended
clicked(self, picked, loading) ==
    /\ app' = IF picked.some THEN loading.self ELSE self
    /\ op' = "update"
    /\ result' = [picked |-> picked,
                  outcome |-> IF ~picked.some THEN "cancelled"
                              ELSE IF loading.result.ok THEN "ok"
                              ELSE loading.result.err]

\* App::update with the button clicked: the dialog returns a path or is
\* cancelled
Update ==
    /\ "files" \in DOMAIN args
    /\ \/ clicked(app, None, [self |-> app, result |-> Ok("unit")])
       \/ \E path \in Paths :
             clicked(app, Some(path),
                     load_character(app, from_file(args.files, path), path))
    /\ UNCHANGED <<character, args, callers>>

\* a file is written, replaced or removed outside the program
WriteFile ==
    /\ "files" \in DOMAIN args
    /\ \E path \in Paths : \E content \in Contents :
          args' = [args EXCEPT !.files[path] = content]
    /\ op' = "write_file"
    /\ result' = "none"
    /\ UNCHANGED <<character, app, callers>>

InitApp ==
    /\ character = NoCharacter
    /\ args \in [files : [Paths -> Contents]]
    /\ op = "none"
    /\ result = "none"
    /\ app = new
    /\ callers = NoCallers

NextApp ==
    \/ Update
    \/ WriteFile

SpecApp == InitApp /\ [][NextApp]_vars

-----------------------------------------------------------------------------
(* The cost curves as the specification states them *)

RECURSIVE MarginalSum(_, _)
\* sum over k = 1..n of m * (k + 1)
MarginalSum(n, m) == IF n <= 0 THEN 0 ELSE m * (n + 1) + MarginalSum(n - 1, m)

GenericCurve(v, m) ==
    IF v < 0 THEN 0
    ELSE IF v <= 12 THEN v * m
    ELSE 12 * m + MarginalSum(v - 12, m)

RECURSIVE CharacteristicSum(_)
\* sum over i = 1..n of (15 + i * 15)
CharacteristicSum(n) == IF n <= 0 THEN 0 ELSE (15 + n * 15) + CharacteristicSum(n - 1)

\* C3: talent_value_to_ap_cost(value, m), m in 1..4, is 0 for value < 0,
\* value * m for 0 <= value <= 12, and 12 * m plus the sum over
\* k = 1..(value - 12) of m * (k + 1) above 12; cost(12,1) = 12,
\* cost(13,1) = 14, cost(14,1) = 17.
C3_GenericCurve ==
    (op = "talent_value_to_ap_cost" /\ args.stf_multiplier \in 1..4) =>
        /\ result = GenericCurve(args.talent_value, args.stf_multiplier)
        /\ (args.stf_multiplier = 1 /\ args.talent_value = 12) => result = 12
        /\ (args.stf_multiplier = 1 /\ args.talent_value = 13) => result = 14
        /\ (args.stf_multiplier = 1 /\ args.talent_value = 14) => result = 17

C3_Witness ==
    /\ op = "talent_value_to_ap_cost"
    /\ args.stf_multiplier = 3
    /\ args.talent_value = 15
    /\ result = 36 + 6 + 9 + 12

\* C4: combat_skill_talent_value_to_ap_cost(value, m) is 0 for value <= 6 and
\* genericCurve(value, m) - genericCurve(6, m) above 6; combatSkillCurve(8,1) = 2.
C4_CombatSkillCurve ==
    op = "combat_skill_talent_value_to_ap_cost" =>
        /\ args.talent_value <= 6 => result = 0
        /\ args.talent_value > 6 =>
              result = GenericCurve(args.talent_value, args.stf_multiplier)
                         - GenericCurve(6, args.stf_multiplier)
        /\ (args.talent_value = 8 /\ args.stf_multiplier = 1) => result = 2

C4_Witness ==
    /\ op = "combat_skill_talent_value_to_ap_cost"
    /\ args.talent_value = 14
    /\ args.stf_multiplier = 2
    /\ result = 34 - 12

\* C5: characteristic_to_ap_cost(v) is an out-of-range error for v < 8,
\* (v - 8) * 15 for 8 <= v <= 14, and 90 plus the sum over i = 1..(v - 14) of
\* (15 + i * 15) above 14; cost(10) = 30, cost(15) = 120.
C5_CharacteristicCurve ==
    op = "characteristic_to_ap_cost" =>
        /\ args.value < 8 => ~result.ok
        /\ (args.value >= 8 /\ args.value <= 14) => result = Ok((args.value - 8) * 15)
        /\ args.value > 14 => result = Ok(90 + CharacteristicSum(args.value - 14))
        /\ args.value = 10 => result = Ok(30)
        /\ args.value = 15 => result = Ok(120)

C5_Witness ==
    /\ op = "characteristic_to_ap_cost"
    /\ args.value = 16
    /\ result = Ok(90 + 30 + 45)

\* C6: learned_ability_talent_value_to_ap_cost(talentValue, m) is
\* m + genericCurve(talentValue, m); learnedAbilityCurve(0, 1) = 1.
C6_LearnedAbilityCurve ==
    op = "learned_ability_talent_value_to_ap_cost" =>
        /\ result = args.stf_multiplier
                      + GenericCurve(args.talent_value, args.stf_multiplier)
        /\ (args.talent_value = 0 /\ args.stf_multiplier = 1) => result = 1

C6_Witness ==
    /\ op = "learned_ability_talent_value_to_ap_cost"
    /\ args.talent_value = 0
    /\ args.stf_multiplier = 1
    /\ result = 1

-----------------------------------------------------------------------------
(* The value parser as the specification states it *)

SemicolonPositions(s) == {i \in 1..Len(s) : s[i] = ";"}

PartCount(s) == Cardinality(SemicolonPositions(s)) + 1

\* the position of the k-th semicolon of s
NthSemicolon(s, k) ==
    CHOOSE i \in SemicolonPositions(s) :
        Cardinality({j \in SemicolonPositions(s) : j < i}) = k - 1

\* the k-th semicolon-separated part of s
Part(s, k) ==
    LET first == IF k = 1 THEN 1 ELSE NthSemicolon(s, k - 1) + 1
        last == IF k = PartCount(s) THEN Len(s) ELSE NthSemicolon(s, k) - 1
    IN SubSeq(s, first, last)

\* p without its leading and trailing blanks
Trimmed(p) ==
    LET solid == {i \in 1..Len(p) : p[i] # " "}
    IN IF solid = {} THEN <<>>
       ELSE SubSeq(p, CHOOSE i \in solid : \A j \in solid : i <= j,
                      CHOOSE i \in solid : \A j \in solid : i >= j)

IntegerBody(t) == IF Len(t) > 0 /\ t[1] \in {"+", "-"} THEN SubSeq(t, 2, Len(t)) ELSE t

\* t is an optionally signed decimal integer
IsIntegerText(t) ==
    /\ Len(IntegerBody(t)) > 0
    /\ \A i \in 1..Len(IntegerBody(t)) : IntegerBody(t)[i] \in DigitChars

RECURSIVE PositionalValue(_, _)
\* sum over the positions i..Len(b) of digit * 10^(distance from the end)
PositionalValue(b, i) ==
    IF i > Len(b) THEN 0
    ELSE DigitValue(b[i]) * 10^(Len(b) - i) + PositionalValue(b, i + 1)

IntegerOf(t) ==
    IF t[1] = "-" THEN 0 - PositionalValue(IntegerBody(t), 1)
    ELSE PositionalValue(IntegerBody(t), 1)

\* C10: without a semicolon the raw text yields SingleValue(n) when the whole
\* text is an integer and ParseError otherwise; with a semicolon it yields
\* MultipleValues with one entry per part, in order, when every trimmed part is
\* an integer, and ParseError as soon as one part (an empty one included) is
\* not; never a partial list.
C10_ParserAllOrNothing ==
    op = "parse_ap_value" =>
        LET raw == args.raw
            n == PartCount(raw)
        IN IF SemicolonPositions(raw) = {}
           THEN IF IsIntegerText(raw)
                THEN result = SingleValue(IntegerOf(raw))
                ELSE result = ParseError
           ELSE IF \A k \in 1..n : IsIntegerText(Trimmed(Part(raw, k)))
                THEN result = MultipleValues([k \in 1..n |-> IntegerOf(Trimmed(Part(raw, k)))])
                ELSE result = ParseError

C10_Witness ==
    /\ op = "parse_ap_value"
    /\ args.raw = <<"1", ";", " ", "7">>
    /\ result = MultipleValues(<<1, 7>>)

-----------------------------------------------------------------------------
(* Energy pools as the specification states them *)

\* the pool stored under key in the character's status block, None when absent
PoolOf(c, key) ==
    IF c.system.some /\ c.system.val.status.some THEN c.system.val.status.val[key] ELSE None

AdvancesCost(c, key) ==
    IF PoolOf(c, key).some THEN GenericCurve(PoolOf(c, key).val.advances, 4) ELSE 0

RebuyTimesTwo(c, key) == IF PoolOf(c, key).some THEN PoolOf(c, key).val.rebuy * 2 ELSE 0

PositiveRebuyTimesTwo(c, key) ==
    IF PoolOf(c, key).some /\ PoolOf(c, key).val.rebuy > 0
    THEN PoolOf(c, key).val.rebuy * 2
    ELSE 0

\* C8 as claimed: the energy AP is genericCurve(LeP advances, 4)
\* + genericCurve(AsP advances, 4) + AsP rebuy * 2 + genericCurve(KaP advances, 4)
\* + KaP rebuy * 2, an absent pool adding 0, for every advances and rebuy value.
C8_EnergyEveryRebuy ==
    op = "calculate_energy_values_ap" =>
        result = AdvancesCost(character, "wounds")
                   + AdvancesCost(character, "astralenergy")
                   + RebuyTimesTwo(character, "astralenergy")
                   + AdvancesCost(character, "karmaenergy")
                   + RebuyTimesTwo(character, "karmaenergy")

\* C8 (amended): the same sum, where rebuy points add rebuy * 2 only when they
\* are positive and 0 otherwise.
C8_EnergyPositiveRebuy ==
    op = "calculate_energy_values_ap" =>
        result = AdvancesCost(character, "wounds")
                   + AdvancesCost(character, "astralenergy")
                   + PositiveRebuyTimesTwo(character, "astralenergy")
                   + AdvancesCost(character, "karmaenergy")
                   + PositiveRebuyTimesTwo(character, "karmaenergy")

C8_Witness ==
    /\ op = "calculate_energy_values_ap"
    /\ PoolOf(character, "wounds") = Some([advances |-> 13])
    /\ PoolOf(character, "astralenergy") = Some([advances |-> 5, rebuy |-> 0 - 1])
    /\ PoolOf(character, "karmaenergy") = Some([advances |-> 15, rebuy |-> 3])
    /\ result = (48 + 8) + 20 + (48 + 8 + 12 + 16) + 6

-----------------------------------------------------------------------------
(* Talent-based categories as the specification states them *)

\* the multiplier of a grade text: A 1, B 2, C 3, D 4 in either case, else 0
GradeMultiplier(g) ==
    IF Len(g) # 1 THEN 0
    ELSE CASE g[1] \in {"A", "a"} -> 1
           [] g[1] \in {"B", "b"} -> 2
           [] g[1] \in {"C", "c"} -> 3
           [] g[1] \in {"D", "d"} -> 4
           [] OTHER -> 0

\* the multiplier of an item, 0 when its grade is absent or no grade letter
ItemMultiplier(item) ==
    LET g == item.system["StF"]
    IN IF g.kind = "String" THEN GradeMultiplier(g.str) ELSE 0

\* the talent value of an item, None when absent or no integer
ItemTalent(item) ==
    LET t == item.system["talentValue"]
    IN IF t.kind = "Number" THEN Some(t.num)
       ELSE IF t.kind = "String" /\ IsIntegerText(t.str) THEN Some(IntegerOf(t.str))
       ELSE None

CurveOf(category, v, m) ==
    CASE category = "Skills" -> GenericCurve(v, m)
      [] category = "Combat Skills" ->
            IF v <= 6 THEN 0 ELSE GenericCurve(v, m) - GenericCurve(6, m)
      [] OTHER -> m + GenericCurve(v, m)

RECURSIVE CategorySum(_, _, _, _)
\* the sum, over the items from position i on that have one of the types, a
\* grade letter and an integer talent value, of the category's curve
CategorySum(c, types, category, i) ==
    IF i > Len(c.items) THEN 0
    ELSE (IF /\ c.items[i].item_type \in types
             /\ ItemMultiplier(c.items[i]) # 0
             /\ ItemTalent(c.items[i]).some
          THEN CurveOf(category, ItemTalent(c.items[i]).val, ItemMultiplier(c.items[i]))
          ELSE 0)
           + CategorySum(c, types, category, i + 1)

\* C7: the grade maps A 1, B 2, C 3, D 4 whatever the letter case and any other
\* text has no multiplier; an item whose grade is absent or not a grade letter,
\* or whose talent value is absent or unparsable, adds nothing to its category
\* sum (not even the learning cost), the other items being summed unchanged.
C7_GradeAndSkippedItems ==
    /\ op = "stf_to_multiplier" =>
          IF GradeMultiplier(args.stf) = 0 THEN result = None
          ELSE result = Some(GradeMultiplier(args.stf))
    /\ op = "calculate_skills_ap" =>
          result = CategorySum(character, {"skill"}, "Skills", 1)
    /\ op = "calculate_combat_skills_ap" =>
          result = CategorySum(character, {"combatskill"}, "Combat Skills", 1)
    /\ op = "calculate_spells_and_rituals_ap" =>
          result = CategorySum(character, {"spell", "ritual"}, "Spells/Rituals", 1)
    /\ op = "calculate_liturgies_and_ceremonies_ap" =>
          result = CategorySum(character, {"liturgy", "ceremony"}, "Liturgies/Ceremonies", 1)

\* a ritual without grade next to a spell with grade c and talent value "13"
C7_Witness ==
    /\ op = "calculate_spells_and_rituals_ap"
    /\ Len(character.items) = 2
    /\ character.items[1].item_type = "ritual"
    /\ character.items[1].system["StF"] = Absent
    /\ character.items[1].system["talentValue"] = JNumber(7)
    /\ character.items[2].item_type = "spell"
    /\ character.items[2].system["StF"] = JString(<<"c">>)
    /\ result = 3 + 36 + 6

\* C9: the Magic Tricks AP is the number of items of type magictrick and the
\* Blessings AP the number of items of type blessing, whatever talent value,
\* grade, step or AP value those items carry.
C9_FlatCosts ==
    /\ op = "calculate_magic_tricks_ap" =>
          result = Cardinality({i \in 1..Len(character.items) :
                                   character.items[i].item_type = "magictrick"})
    /\ op = "calculate_blessings_ap" =>
          result = Cardinality({i \in 1..Len(character.items) :
                                   character.items[i].item_type = "blessing"})

C9_Witness ==
    /\ op = "calculate_blessings_ap"
    /\ Len(character.items) = 3
    /\ character.items[1].item_type = "blessing"
    /\ character.items[1].system["talentValue"] = JNumber(7)
    /\ character.items[2].item_type = "magictrick"
    /\ character.items[3].item_type = "blessing"
    /\ character.items[3].system["talentValue"] = Absent
    /\ result = 2

-----------------------------------------------------------------------------
(* The total and the duplicate rule as the specification states them *)

RECURSIVE SumOver(_, _)
\* the sum of cost[i] over the positions i of the set S
SumOver(S, cost) ==
    IF S = {} THEN 0
    ELSE LET i == CHOOSE x \in S : TRUE IN cost[i] + SumOver(S \ {i}, cost)

\* the sum of ap_cost over the entries of a priced list not flagged excluded
NonExcludedCost(priced) ==
    SumOver({i \in 1..Len(priced) : ~priced[i].was_excluded},
            [i \in 1..Len(priced) |-> priced[i].ap_cost])

\* C1: calculate_total_spent_ap returns the sum of ap_cost over the priced
\* items not flagged excluded, plus the skills, combat-skills, spells/rituals,
\* magic-tricks, liturgies/ceremonies, blessings, characteristics and energy
\* AP, each the result of its own calculator on the same character.
C1_TotalIsSumOfParts ==
    op = "calculate_total_spent_ap" =>
        \A order \in IterationOrders(duplicate_group_keys(character)) :
            result = NonExcludedCost(apply_special_rules(character, order))
                       + calculate_skills_ap(character)
                       + calculate_combat_skills_ap(character)
                       + calculate_spells_and_rituals_ap(character)
                       + calculate_magic_tricks_ap(character)
                       + calculate_liturgies_and_ceremonies_ap(character)
                       + calculate_blessings_ap(character)
                       + calculate_characteristics_ap(character)
                       + calculate_energy_values_ap(character)

\* both Prinzipientreue items (the step-1 one loses) with characteristics and energy
C1_Witness ==
    /\ op = "calculate_total_spent_ap"
    /\ Len(character.items) = 2
    /\ character.items[1].name = Qualified(Prinzipientreue, "A")
    /\ character.items[2].name = Qualified(Prinzipientreue, "B")
    /\ calculate_characteristics_ap(character) = 90 + 45
    /\ calculate_energy_values_ap(character) = 8 + (48 + 8) + 2
    /\ result = (0 - 30) + 135 + 66

\* the name up to its first opening parenthesis, blanks around it removed; the
\* whole name when it has no parenthesis
BaseNameOf(name) ==
    LET parens == {i \in 1..Len(name) : name[i] = "("}
    IN IF parens = {} THEN name
       ELSE Trimmed(SubSeq(name, 1, (CHOOSE i \in parens : \A j \in parens : i <= j) - 1))

ConfiguredNames == {Prinzipientreue, Verpflichtungen}

\* the step of a priced entry, an absent step counting as 1
StepOf(entry) == IF entry.step.some THEN entry.step.val ELSE 1

\* the positions of the entries of a priced list with base name b
GroupOf(priced, b) == {i \in 1..Len(priced) : BaseNameOf(priced[i].name) = b}

\* the positions of the items of c that expose an AP value
ApPositions(c) ==
    {i \in 1..Len(c.items) : c.items[i].system["APValue"].kind \in {"String", "Number"}}

ItemGroup(c, b) == {i \in ApPositions(c) : BaseNameOf(c.items[i].name) = b}

ItemStep(c, i) == unwrap_or(step_option(c.items[i]), 1)

\* the items of group G with the highest step
HighestStep(c, G) == {w \in G : \A j \in G : ItemStep(c, w) >= ItemStep(c, j)}

RECURSIVE WinnerChoices(_, _)
\* the ways to pick one item of highest step from each non-empty group
WinnerChoices(c, names) ==
    IF names = {} THEN {{}}
    ELSE LET b == CHOOSE x \in names : TRUE
             rest == WinnerChoices(c, names \ {b})
         IN IF ItemGroup(c, b) = {} THEN rest
            ELSE {{w} \cup r : w \in HighestStep(c, ItemGroup(c, b)), r \in rest}

\* a choice of what contributes: every item outside the configured groups, and
\* of every configured group one item of highest step
Contributors(c) ==
    {{i \in ApPositions(c) : BaseNameOf(c.items[i].name) \notin ConfiguredNames} \cup W :
        W \in WinnerChoices(c, ConfiguredNames)}

ItemCosts(c) == [i \in 1..Len(c.items) |-> calculate_item_ap_cost(c.items[i])]

FixedLabels ==
    {"Skills", "Combat Skills", "Spells/Rituals", "Magic Tricks", "Liturgies/Ceremonies",
     "Blessings", "Energies (LeP/AsP/KaP)", "Characteristics"}

\* C2: in the list of apply_special_rules every group of two or more items with
\* a configured base name has exactly one item not flagged excluded, whose step
\* (default 1) is at least that of every other item of the group, the others
\* being flagged excluded and adding nothing to the total or the category map;
\* an item whose base name is not configured is never flagged excluded.
C2_HighestStepOnly ==
    /\ op = "apply_special_rules" =>
          /\ \A b \in ConfiguredNames :
                Cardinality(GroupOf(result, b)) >= 2 =>
                   \E w \in GroupOf(result, b) :
                      /\ ~result[w].was_excluded
                      /\ \A j \in GroupOf(result, b) \ {w} :
                            /\ result[j].was_excluded
                            /\ StepOf(result[w]) >= StepOf(result[j])
          /\ \A i \in 1..Len(result) :
                BaseNameOf(result[i].name) \notin ConfiguredNames => ~result[i].was_excluded
    /\ op = "calculate_total_spent_ap" =>
          \E S \in Contributors(character) :
             result = SumOver(S, ItemCosts(character))
                        + calculate_skills_ap(character)
                        + calculate_combat_skills_ap(character)
                        + calculate_spells_and_rituals_ap(character)
                        + calculate_magic_tricks_ap(character)
                        + calculate_liturgies_and_ceremonies_ap(character)
                        + calculate_blessings_ap(character)
                        + calculate_characteristics_ap(character)
                        + calculate_energy_values_ap(character)
    /\ op = "get_ap_by_category" =>
          \E S \in Contributors(character) :
             \A t \in {character.items[i].item_type : i \in 1..Len(character.items)} \ FixedLabels :
                LET of_type == {i \in S : character.items[i].item_type = t}
                IN /\ t \in DOMAIN result <=> \E i \in of_type : ItemCosts(character)[i] # 0
                   /\ t \in DOMAIN result => result[t] = SumOver(of_type, ItemCosts(character))

\* three Prinzipientreue items with steps absent, 2 and 1: the step-2 one is kept
C2_Witness ==
    /\ op = "apply_special_rules"
    /\ Len(character.items) = 3
    /\ character.items[1] = Item(Qualified(Prinzipientreue, "A"), "disadvantage",
                                 JNumber(5), Absent, Absent, Absent)
    /\ character.items[2] = Item(Qualified(Prinzipientreue, "B"), "disadvantage",
                                 JNumber(5), JNumber(2), Absent, Absent)
    /\ character.items[3] = Item(Qualified(Prinzipientreue, "B"), "disadvantage",
                                 JNumber(5), JNumber(1), Absent, Absent)
    /\ Len(result) = 3
    /\ result[1].step = Some(2) /\ ~result[1].was_excluded /\ result[1].ap_cost = 10
    /\ result[2].was_excluded
    /\ result[3].was_excluded


-----------------------------------------------------------------------------
(* The item pricing rules as the specification states them *)

\* raw reads as a list: it has a semicolon and every trimmed part is an integer
IsListText(raw) ==
    /\ SemicolonPositions(raw) # {}
    /\ \A k \in 1..PartCount(raw) : IsIntegerText(Trimmed(Part(raw, k)))

ListOf(raw) == [k \in 1..PartCount(raw) |-> IntegerOf(Trimmed(Part(raw, k)))]

\* raw reads as a single value: no semicolon, and the whole text is an integer
IsSingleText(raw) == SemicolonPositions(raw) = {} /\ IsIntegerText(raw)

IsErrorText(raw) == ~IsListText(raw) /\ ~IsSingleText(raw)

IsErrorTrace(calculation) == Len(calculation) > 0 /\ calculation[1] = "ERROR: "

ThreeFiveEight == <<"3", ";", "5", ";", "8">>

\* C11: an entry whose raw AP value reads as a list costs the sum of the first
\* `step` values of the list, in order, when 1 <= step <= length, and otherwise
\* costs 0 with a calculation trace that is an error string; "3;5;8" costs 8
\* at step 2 and is a range error at step 4.
C11_MultipleValuesCost ==
    op = "get_ap_items_breakdown" =>
        \A i \in 1..Len(result) :
            LET e == result[i]
                list == ListOf(e.raw_value)
                step == StepOf(e)
            IN IsListText(e.raw_value) =>
                /\ (step >= 1 /\ step <= Len(list)) =>
                      /\ e.ap_cost = SumOver(1..step, list)
                      /\ ~IsErrorTrace(e.calculation)
                /\ (step < 1 \/ step > Len(list)) =>
                      /\ e.ap_cost = 0
                      /\ IsErrorTrace(e.calculation)
                /\ (e.raw_value = ThreeFiveEight /\ step = 2) => e.ap_cost = 8
                /\ (e.raw_value = ThreeFiveEight /\ step = 4) => IsErrorTrace(e.calculation)

C11_Witness ==
    /\ op = "get_ap_items_breakdown"
    /\ Len(result) = 2
    /\ result[1].raw_value = ThreeFiveEight
    /\ result[1].step = Some(4)
    /\ result[1].ap_cost = 0
    /\ result[1].calculation =
          <<"ERROR: ", "Step ", "4", " exceeds available values (", "3", ")">>
    /\ result[2].raw_value = ThreeFiveEight
    /\ result[2].step = Some(2)
    /\ result[2].ap_cost = 8
    /\ result[2].calculation = <<"Sum: ", "3", " + ", "5">>

\* C12: an entry whose raw AP value reads as a single value v costs v * step,
\* step being the entry's resolved step.
C12_SingleValueCost ==
    op = "get_ap_items_breakdown" =>
        \A i \in 1..Len(result) :
            IsSingleText(result[i].raw_value) =>
                result[i].ap_cost = IntegerOf(result[i].raw_value) * StepOf(result[i])

C12_Witness ==
    /\ op = "get_ap_items_breakdown"
    /\ Len(result) = 2
    /\ result[1].raw_value = <<"-", "1", "0">>
    /\ result[1].step = Some(2)
    /\ result[1].ap_cost = 0 - 20
    /\ result[2].raw_value = <<"5">>
    /\ result[2].step = Some(2)
    /\ result[2].ap_cost = 10

\* the positions of the character's items whose AP value is present and
\* unparsable
ErrorPositions(c) ==
    {i \in 1..Len(c.items) :
        /\ get_ap_value(c.items[i].system).some
        /\ IsErrorText(get_ap_value(c.items[i].system).val)}

\* c without the items at the positions of S
WithoutPositions(c, S) ==
    LET kept == {i \in 1..Len(c.items) : i \notin S}
        nth(k) == CHOOSE i \in kept : Cardinality({j \in kept : j < i}) = k - 1
    IN [c EXCEPT !.items = [k \in 1..Cardinality(kept) |-> c.items[nth(k)]]]

\* the fields of an entry that price it
PricedFields(e) ==
    [name |-> e.name, raw_value |-> e.raw_value, step |-> e.step, ap_cost |-> e.ap_cost]

PricedFieldsOf(entries) == [i \in 1..Len(entries) |-> PricedFields(entries[i])]

\* C13: an item whose AP value is present and unparsable appears in the
\* breakdown with cost 0 and the trace "Parse error", and the other entries
\* have the name, raw value, step and cost they have in the breakdown of the
\* character without that item.
C13_ParseErrorIsolated ==
    op = "get_ap_items_breakdown" =>
        /\ \A i \in 1..Len(result) :
              IsErrorText(result[i].raw_value) =>
                  result[i].ap_cost = 0 /\ result[i].calculation = <<"Parse error">>
        /\ Cardinality({i \in 1..Len(result) : IsErrorText(result[i].raw_value)})
             = Cardinality(ErrorPositions(character))
        /\ LET others == WithoutPositions(character, ErrorPositions(character))
           IN \A order \in IterationOrders(duplicate_group_keys(others)) :
                 PricedFieldsOf(SelectSeq(result, LAMBDA e : ~IsErrorText(e.raw_value)))
                   = PricedFieldsOf(get_ap_items_breakdown(others, order))

C13_Witness ==
    /\ op = "get_ap_items_breakdown"
    /\ Len(result) = 2
    /\ result[1].name = Qualified(Prinzipientreue, "A")
    /\ result[1].ap_cost = 0 - 10
    /\ result[1].was_excluded
    /\ result[2].name = Qualified(Prinzipientreue, "B")
    /\ result[2].raw_value = <<"x">>
    /\ result[2].step = Some(4)
    /\ result[2].ap_cost = 0
    /\ result[2].calculation = <<"Parse error">>
    /\ ~result[2].was_excluded


-----------------------------------------------------------------------------
(* The error and sign rules as the specification states them *)

\* characteristicCurve(v) for v >= 8
CharacteristicCurve(v) ==
    IF v <= 14 THEN (v - 8) * 15 ELSE 90 + CharacteristicSum(v - 14)

\* the eight characteristics
CharacteristicNames == {"mu", "kl", "in_", "ch", "ff", "ge", "ko", "kk"}

\* the characteristics that are present
PresentCharacteristics(c) ==
    IF c.system.some /\ c.system.val.characteristics.some
    THEN {k \in CharacteristicNames : c.system.val.characteristics.val[k].some}
    ELSE {}

NominalOf(c, k) ==
    c.system.val.characteristics.val[k].val.initial
      + c.system.val.characteristics.val[k].val.advances

\* C14: a range error costs 0: every entry whose resolved step is below 1
\* costs 0 whatever its raw AP value reads as, every entry whose step exceeds
\* the number of its values costs 0, and every characteristic below 8 adds 0
\* to the characteristics AP.
C14_RangeErrorCostsNothing ==
    /\ op = "get_ap_items_breakdown" =>
          \A i \in 1..Len(result) :
              /\ StepOf(result[i]) < 1 => result[i].ap_cost = 0
              /\ (IsListText(result[i].raw_value)
                    /\ StepOf(result[i]) > Len(ListOf(result[i].raw_value))) =>
                     result[i].ap_cost = 0
    /\ op = "calculate_characteristics_ap" =>
          result = SumOver({k \in PresentCharacteristics(character) :
                              NominalOf(character, k) >= 8},
                           [k \in PresentCharacteristics(character) |->
                               CharacteristicCurve(NominalOf(character, k))])

\* what the pricing rules make of an entry's raw value and step
PricedAmount(e) ==
    IF IsSingleText(e.raw_value) THEN IntegerOf(e.raw_value) * StepOf(e)
    ELSE IF IsListText(e.raw_value)
              /\ StepOf(e) >= 1 /\ StepOf(e) <= Len(ListOf(e.raw_value))
         THEN SumOver(1..StepOf(e), ListOf(e.raw_value))
    ELSE 0

\* the entries that count toward the totals and cost less than nothing
NegativeContributors(c, order) ==
    {e \in {apply_special_rules(c, order)[i] :
                i \in 1..Len(apply_special_rules(c, order))} :
        ~e.was_excluded /\ e.ap_cost < 0}

\* C15 as stated: the ap_cost of every breakdown entry, every value of the
\* category map and the total are >= 0.
C15_NeverNegative ==
    /\ op = "get_ap_items_breakdown" => \A i \in 1..Len(result) : result[i].ap_cost >= 0
    /\ op = "get_ap_by_category" => \A k \in DOMAIN result : result[k] >= 0
    /\ op = "calculate_total_spent_ap" => result >= 0

\* C15 as amended: an entry's ap_cost is negative exactly when its value times
\* its step, or the sum of its first step values, is negative; a value of the
\* category map is negative only if a counted entry of that item type has a
\* negative cost, and the total is negative only if a counted entry has one.
C15_NegativeOnlyFromItems ==
    /\ op = "get_ap_items_breakdown" =>
          \A i \in 1..Len(result) : result[i].ap_cost < 0 <=> PricedAmount(result[i]) < 0
    /\ op = "get_ap_by_category" =>
          \A order \in IterationOrders(duplicate_group_keys(character)) :
              \A k \in DOMAIN result :
                  result[k] < 0 =>
                      \E e \in NegativeContributors(character, order) : e.item_type = k
    /\ op = "calculate_total_spent_ap" =>
          \A order \in IterationOrders(duplicate_group_keys(character)) :
              result < 0 => NegativeContributors(character, order) # {}

C15_Witness ==
    /\ op = "get_ap_by_category"
    /\ Len(character.items) = 2
    /\ DOMAIN result = {"advantage", "disadvantage"}
    /\ result["advantage"] = 8
    /\ result["disadvantage"] = 0 - 20

\* C16: every entry of the map get_ap_by_category returns has a non-zero
\* value, under a fixed label or under an item type.
C16_NoZeroCategory ==
    op = "get_ap_by_category" => \A k \in DOMAIN result : result[k] # 0


-----------------------------------------------------------------------------
(* The breakdown listing as the specification states it *)

\* what identifies an entry of the breakdown, and the item it was made from
EntryKey(e) == <<e.name, e.raw_value, e.step>>

ItemKey(item) == <<item.name, get_ap_value(item.system).val, step_option(item)>>

\* C17: the breakdown has one entry for every item of the character that has
\* an AP value, flagged excluded or not: as many entries as such items, and
\* every such item is listed as often as the character holds it.
C17_EveryApItemListedOnce ==
    op = "get_ap_items_breakdown" =>
        /\ Len(result) = Cardinality(ApPositions(character))
        /\ \A i \in ApPositions(character) :
              Cardinality({j \in 1..Len(result) :
                              EntryKey(result[j]) = ItemKey(character.items[i])})
                = Cardinality({j \in ApPositions(character) :
                                  ItemKey(character.items[j]) = ItemKey(character.items[i])})

\* a duplicate group of two: the loser stays listed, flagged excluded
C17_Witness ==
    /\ op = "get_ap_items_breakdown"
    /\ Len(character.items) = 2
    /\ Cardinality(ApPositions(character)) = 2
    /\ Len(result) = 2
    /\ result[1].name = Qualified(Prinzipientreue, "A")
    /\ result[1].was_excluded
    /\ result[2].name = Qualified(Prinzipientreue, "B")
    /\ ~result[2].was_excluded

\* a comes before b in byte-wise lexicographic order
NameLess(a, b) ==
    \E k \in 1..(Len(b)) :
        /\ k - 1 <= Len(a)
        /\ SubSeq(a, 1, k - 1) = SubSeq(b, 1, k - 1)
        /\ (Len(a) = k - 1 \/ CharCode(a[k]) < CharCode(b[k]))

\* C18: in the list get_ap_items_breakdown returns, of two adjacent entries the
\* first has the smaller name, or the same name and a step (1 when absent)
\* greater than or equal to the second's.
C18_BreakdownOrdered ==
    op = "get_ap_items_breakdown" =>
        \A i \in 1..(Len(result) - 1) :
            \/ NameLess(result[i].name, result[i + 1].name)
            \/ /\ result[i].name = result[i + 1].name
               /\ StepOf(result[i]) >= StepOf(result[i + 1])

\* the character lists S without step, then S with step 4: the breakdown
\* lists the step-4 entry first
C18_Witness ==
    /\ op = "get_ap_items_breakdown"
    /\ Len(character.items) = 2
    /\ character.items[1].name = <<"S">> /\ step_option(character.items[1]) = None
    /\ character.items[2].name = <<"S">> /\ step_option(character.items[2]) = Some(4)
    /\ Len(result) = 2
    /\ result[1].name = <<"S">> /\ result[1].step = Some(4)
    /\ result[2].name = <<"S">> /\ result[2].step = None

\* C19: when a public operation of the pipeline runs again on the same
\* character, whatever the order its duplicate-group map is iterated in, it
\* returns what it returned before: the same total, the same category map, the
\* same breakdown in the same order with the same excluded flags.
C19_SameResultTwice ==
    [][(/\ op \in {"calculate_total_spent_ap", "get_ap_by_category",
                    "get_ap_items_breakdown"}
        /\ op' = op
        /\ character' = character) => result' = result]_vars

\* a breakdown of a character with items in both duplicate groups, whose map
\* can be iterated in two orders
C19_Witness ==
    /\ op = "get_ap_items_breakdown"
    /\ duplicate_group_keys(character) = {Prinzipientreue, Verpflichtungen}
    /\ Len(result) = 3
    /\ \E i \in 1..3 : result[i].was_excluded

-----------------------------------------------------------------------------
(* The comparison as the specification states it *)

\* experience.spent, 0 without system block, details block or experience block
RecordedSpent(c) ==
    IF c.system.some /\ c.system.val.details.some
         /\ c.system.val.details.val.experience.some
    THEN c.system.val.details.val.experience.val.spent
    ELSE 0

\* C20: show_total_spent computes difference = computed - recorded, computed
\* being what calculate_total_spent_ap returns and recorded experience.spent,
\* 0 when the system, details or experience block is missing; the difference
\* is 0 exactly when computed equals recorded.
C20_ComparisonFacts ==
    op = "show_total_spent" =>
        /\ \A order \in IterationOrders(duplicate_group_keys(character)) :
              result.calculated_total_spent_ap = calculate_total_spent_ap(character, order)
        /\ result.foundry_spent_ap = RecordedSpent(character)
        /\ result.difference = result.calculated_total_spent_ap - result.foundry_spent_ap
        /\ result.difference = 0
             <=> result.calculated_total_spent_ap = result.foundry_spent_ap

\* experience.spent = 100 and a computed total of 100
C20_Witness ==
    /\ op = "show_total_spent"
    /\ RecordedSpent(character) = 100
    /\ character.system.val.details.val.experience.val.total = 120
    /\ result = [calculated_total_spent_ap |-> 100, foundry_spent_ap |-> 100,
                 difference |-> 0]


-----------------------------------------------------------------------------
\* the parts of the character record that C21 names
CharacteristicsOf(c) == IF c.system.some THEN c.system.val.characteristics ELSE None

EnergyPoolsOf(c) == IF c.system.some THEN c.system.val.status ELSE None

ExperienceOf(c) ==
    IF c.system.some /\ c.system.val.details.some
    THEN c.system.val.details.val.experience
    ELSE None

\* C21: no engine operation mutates the character record: across every call
\* of calculate_total_spent_ap, get_ap_by_category, get_ap_items_breakdown
\* and the category calculators the character's items, its characteristics,
\* its energy pools and its experience record stay what they were.
C21_CharacterNotMutated ==
    [][/\ character'.items = character.items
       /\ character'.system.some = character.system.some
       /\ CharacteristicsOf(character') = CharacteristicsOf(character)
       /\ EnergyPoolsOf(character') = EnergyPoolsOf(character)
       /\ ExperienceOf(character') = ExperienceOf(character)]_vars

\* the skills were priced for a character with two items out of name order,
\* characteristics, energy pools and an experience record
C21_Witness ==
    /\ op = "calculate_skills_ap"
    /\ result > 0
    /\ Len(character.items) = 2
    /\ cmp_text(character.items[2].name, character.items[1].name) < 0
    /\ CharacteristicsOf(character).some
    /\ EnergyPoolsOf(character).some
    /\ ExperienceOf(character).some


-----------------------------------------------------------------------------
\* C22: no error is surfaced as a hard failure of the whole computation: for
\* every character record, with malformed AP values, steps outside the valid
\* range, negative or very large numeric fields and missing blocks, the
\* public operations return a result and never abort.
C22_NeverAborts == op # "panicked"


-----------------------------------------------------------------------------
\* what the public operation returns when it is the only call running
RunAlone(operation, c, order) ==
    CASE operation = "calculate_total_spent_ap" -> calculate_total_spent_ap(c, order)
      [] operation = "get_ap_by_category" -> get_ap_by_category(c, order)
      [] operation = "get_ap_items_breakdown" -> get_ap_items_breakdown(c, order)

\* C23: public operations invoked side by side by several callers, each on
\* its own character snapshot, do not interfere: under every interleaving the
\* result a caller gets is the result of running its call alone (for some
\* iteration order of that call's own group map).
C23_CallersDoNotInterfere ==
    \A k \in DOMAIN callers :
        callers[k].pc = "returned" =>
            \E order \in IterationOrders(duplicate_group_keys(callers[k].character)) :
                callers[k].result =
                    RunAlone(callers[k].operation, callers[k].character, order)

\* caller 1 has returned the total of the character with one group of two
\* while caller 2, on another snapshot, is between its two steps
C23_Witness ==
    /\ callers[1].pc = "returned"
    /\ callers[1].operation = "calculate_total_spent_ap"
    /\ callers[1].result = 0 - 40
    /\ callers[2].pc = "called"
    /\ callers[2].character # callers[1].character


-----------------------------------------------------------------------------
\* the first item, in the order of the character's item list, among the items
\* of group G with the highest step
FirstOfHighestStep(c, G) ==
    CHOOSE w \in HighestStep(c, G) : \A j \in HighestStep(c, G) : w <= j

\* the entries of a processed list that belong to base name b and count
KeptOf(entries, b) == {e \in GroupOf(entries, b) : ~entries[e].was_excluded}

\* C24: when two or more items of a duplicate group share the highest step,
\* the one that comes first in the character's item list is the one kept, and
\* all the others of the group are flagged excluded, whatever the iteration
\* order of the group map.
C24_FirstOfTieKept ==
    op \in {"apply_special_rules", "get_ap_items_breakdown"} =>
        \A b \in ConfiguredNames :
            Cardinality(HighestStep(character, ItemGroup(character, b))) >= 2 =>
                /\ Cardinality(KeptOf(result, b)) = 1
                /\ Cardinality(GroupOf(result, b)) = Cardinality(ItemGroup(character, b))
                /\ \A e \in KeptOf(result, b) :
                      /\ result[e].name =
                            character.items[FirstOfHighestStep(character,
                                                               ItemGroup(character, b))].name
                      /\ result[e].step =
                            step_option(character.items[FirstOfHighestStep(character,
                                                            ItemGroup(character, b))])

\* Prinzipientreue (B) with step 1 comes before Prinzipientreue (A) without a
\* step in the item list: the two tie at step 1 and (B) is the one kept
C24_Witness ==
    /\ op = "get_ap_items_breakdown"
    /\ Len(character.items) = 2
    /\ character.items[1].name = Qualified(Prinzipientreue, "B")
    /\ character.items[1].system["step"] = JNumber(1)
    /\ character.items[2].name = Qualified(Prinzipientreue, "A")
    /\ character.items[2].system["step"] = Absent
    /\ result[1].name = Qualified(Prinzipientreue, "A")
    /\ result[1].was_excluded
    /\ ~result[2].was_excluded


-----------------------------------------------------------------------------
(* The step of an item as the specification states it *)

\* the step attribute is an integer: a JSON number, or a text that is an
\* optionally signed decimal integer and nothing else
StepIsInteger(item) ==
    \/ item.system["step"].kind = "Number"
    \/ item.system["step"].kind = "String" /\ IsIntegerText(item.system["step"].str)

\* the step the item resolves to: its integer, or 1
ResolvedStep(item) ==
    IF item.system["step"].kind = "Number" THEN item.system["step"].num
    ELSE IF StepIsInteger(item) THEN IntegerOf(item.system["step"].str)
    ELSE 1

\* the AP value of the item read as the raw text of an entry
SameApValue(raw, item) ==
    IF item.system["APValue"].kind = "Number"
    THEN IsSingleText(raw) /\ IntegerOf(raw) = item.system["APValue"].num
    ELSE raw = item.system["APValue"].str

\* the cost of raw at a step: value times step, the sum of the first step
\* values of a list, 0 when the step is outside the list or raw is no number
PriceAt(raw, step) ==
    IF IsSingleText(raw) THEN IntegerOf(raw) * step
    ELSE IF IsListText(raw) /\ step \in 1..PartCount(raw)
    THEN SumOver(1..step, ListOf(raw))
    ELSE 0

\* the trace of raw at step 1: the value itself, or the first value of a list
TraceAtOne(raw) ==
    IF IsSingleText(raw) THEN raw
    ELSE IF IsListText(raw) THEN Trimmed(Part(raw, 1))
    ELSE <<"Parse error">>

\* entry e is item i priced at the step the item resolves to
PricedAtResolvedStep(e, item) ==
    /\ e.name = item.name
    /\ SameApValue(e.raw_value, item)
    /\ e.step = IF StepIsInteger(item) THEN Some(ResolvedStep(item)) ELSE None
    /\ e.ap_cost = PriceAt(e.raw_value, ResolvedStep(item))
    /\ ~StepIsInteger(item) => e.calculation = TraceAtOne(e.raw_value)

\* the highest step the items of group G resolve to
HighestResolved(c, G) ==
    CHOOSE h \in {ResolvedStep(c.items[i]) : i \in G} :
        \A i \in G : ResolvedStep(c.items[i]) <= h

\* C25: the step of an item resolves to 1 whenever its step attribute is
\* absent or does not parse as an integer, and this one resolved step prices
\* the item, writes its calculation trace, ranks it in its duplicate group and
\* orders it in the breakdown.
C25_StepResolvesToOne ==
    op \in {"apply_special_rules", "get_ap_items_breakdown"} =>
        /\ \A e \in 1..Len(result) :
              \E i \in ApPositions(character) :
                 PricedAtResolvedStep(result[e], character.items[i])
        /\ \A b \in ConfiguredNames :
              ItemGroup(character, b) # {} =>
                 \A e \in KeptOf(result, b) :
                    StepOf(result[e]) = HighestResolved(character, ItemGroup(character, b))
        /\ op = "get_ap_items_breakdown" =>
              \A e \in 1..(Len(result) - 1) :
                 result[e].name = result[e + 1].name =>
                    StepOf(result[e]) >= StepOf(result[e + 1])

\* two items of one name, the first with the step " 2", which is no integer,
\* the second with step 2: the second is listed first and kept, the first is
\* priced at step 1 and excluded
C25_Witness ==
    /\ op = "get_ap_items_breakdown"
    /\ Len(character.items) = 2
    /\ character.items[1].name = Qualified(Prinzipientreue, "A")
    /\ character.items[1].system["step"] = JString(<<" ", "2">>)
    /\ character.items[1].system["APValue"] = JString(<<"3", ";", "5">>)
    /\ character.items[2].name = Qualified(Prinzipientreue, "A")
    /\ character.items[2].system["step"] = JNumber(2)
    /\ result[1].step = Some(2)
    /\ ~result[1].was_excluded
    /\ result[2].step = None
    /\ result[2].ap_cost = 3
    /\ result[2].calculation = <<"3">>
    /\ result[2].was_excluded


-----------------------------------------------------------------------------
\* what characteristic k adds: the curve at initial + advances when it is
\* present with a nominal value of 8 or more, and 0 otherwise
CharacteristicContribution(c, k) ==
    IF k \in PresentCharacteristics(c) /\ NominalOf(c, k) >= 8
    THEN CharacteristicCurve(NominalOf(c, k))
    ELSE 0

\* C26: the Characteristics AP is the sum of the characteristic curve at
\* initial + advances over exactly the characteristics, of the eight, that are
\* present with a nominal value of at least 8; one below 8 adds 0, never a
\* negative amount, and leaves what the others add as it is.
C26_CharacteristicsSum ==
    op = "calculate_characteristics_ap" =>
        /\ result = SumOver(CharacteristicNames,
                            [k \in CharacteristicNames |->
                                CharacteristicContribution(character, k)])
        /\ \A k \in CharacteristicNames : CharacteristicContribution(character, k) >= 0
        /\ result >= 0

\* mu is 7 and adds nothing; kl at 10, in at 8 and ff at 11 add 30 + 0 + 45
C26_Witness ==
    /\ op = "calculate_characteristics_ap"
    /\ "mu" \in PresentCharacteristics(character)
    /\ NominalOf(character, "mu") = 7
    /\ "kl" \in PresentCharacteristics(character)
    /\ NominalOf(character, "kl") = 10
    /\ result = 75


-----------------------------------------------------------------------------
\* C27: for every character, whatever its item_type strings are (one may be
\* the label of a calculated category, such as "Skills"), the values of the
\* map of get_ap_by_category add up to what calculate_total_spent_ap returns.
C27_CategoriesSumToTotal ==
    op = "get_ap_by_category" =>
        \A order \in IterationOrders(duplicate_group_keys(character)) :
            SumOver(DOMAIN result, result) = calculate_total_spent_ap(character, order)


-----------------------------------------------------------------------------
\* the ways to reorder n items
Reorderings(n) == {p \in [1..n -> 1..n] : \A i, j \in 1..n : p[i] = p[j] => i = j}

\* c with its item list reordered by p
Reordered(c, p) == [c EXCEPT !.items = [i \in 1..Len(c.items) |-> c.items[p[i]]]]

\* no duplicate group of c has two items tied at the highest step
NoTieAtHighestStep(c) ==
    \A b \in ConfiguredNames : Cardinality(HighestStep(c, ItemGroup(c, b))) <= 1

\* a call of calculate_total_spent_ap on c may panic
total_may_panic(c) ==
    \E order \in IterationOrders(duplicate_group_keys(c)) :
        TRUE \in may_panic_adding(c, total_overflows(apply_special_rules(c, order), c))

\* a call of get_ap_by_category on c may panic
categories_may_panic(c) ==
    \E order \in IterationOrders(duplicate_group_keys(c)) :
        TRUE \in may_panic_adding(c,
                    \/ energy_values_overflow(c)
                    \/ categories_overflow(apply_special_rules(c, order), EmptyMap))

\* C28: the total and the category map do not depend on the order of the
\* character's item list: provided no duplicate group has two items tied at
\* the highest step, a call that returned a value returns the same value for
\* every reordering of the items (and every iteration order of the group map),
\* and a call that panicked panics for every reordering as well.
C28_ItemOrderIrrelevant ==
    NoTieAtHighestStep(character) =>
        /\ op = "calculate_total_spent_ap" =>
              \A p \in Reorderings(Len(character.items)) :
                 \A order \in IterationOrders(duplicate_group_keys(character)) :
                    result = calculate_total_spent_ap(Reordered(character, p), order)
        /\ op = "get_ap_by_category" =>
              \A p \in Reorderings(Len(character.items)) :
                 \A order \in IterationOrders(duplicate_group_keys(character)) :
                    result = get_ap_by_category(Reordered(character, p), order)
        /\ op = "panicked" /\ result = "calculate_total_spent_ap" =>
              \A p \in Reorderings(Len(character.items)) :
                 total_may_panic(Reordered(character, p))
        /\ op = "panicked" /\ result = "get_ap_by_category" =>
              \A p \in Reorderings(Len(character.items)) :
                 categories_may_panic(Reordered(character, p))

-----------------------------------------------------------------------------
\* the eight category calculators
CategoryCalculators ==
    {"calculate_skills_ap", "calculate_combat_skills_ap", "calculate_spells_and_rituals_ap",
     "calculate_magic_tricks_ap", "calculate_liturgies_and_ceremonies_ap",
     "calculate_blessings_ap", "calculate_characteristics_ap", "calculate_energy_values_ap"}

\* C29: each of the eight category calculators (skills, combat skills,
\* spells/rituals, magic tricks, liturgies/ceremonies, blessings,
\* characteristics, energies) returns a value >= 0 for every character.
C29_CalculatorsNonNegative == op \in CategoryCalculators => result >= 0

-----------------------------------------------------------------------------
\* C30: in the application shell the selected file is set if and only if a
\* current character is set; a load that fails (unreadable file or unparsable
\* record) leaves the loaded character and the selected file as they were,
\* and a load that succeeds replaces both together: the selected file is the
\* path picked and the current character is what that file held when read.
C30_SelectedFileFollowsCharacter ==
    [][/\ app.selected_file.some <=> app.current_character.some
       /\ app'.selected_file.some <=> app'.current_character.some
       /\ op' = "update" /\ result'.outcome # "ok" => app' = app
       /\ op' = "update" /\ result'.outcome = "ok" =>
             /\ app'.selected_file = result'.picked
             /\ from_file(args.files, result'.picked.val).ok
             /\ app'.current_character.val = from_file(args.files, result'.picked.val).val
       /\ op' # "update" => app' = app]_vars

\* a character was loaded from one path and a later load of a file that is
\* no character record failed
C30_Witness ==
    /\ op = "update"
    /\ result.picked.some
    /\ result.outcome \in {"io", "syntax", "missing field"}
    /\ app.selected_file.some
    /\ app.selected_file # result.picked
    /\ app.current_character.some
    /\ Len(app.current_character.val.items) = 1

=============================================================================
